---- MODULE Spec2Model ----
(***************************************************************************)
(* USDT deposit-to-balance reconciliation core of the tarot bot:           *)
(*   services/wallet.py   (WalletManager, HD address allocation),          *)
(*   services/payment.py  (PaymentManager, orders and balances),           *)
(*   services/quota.py    (QuotaManager, free quota and paid debit),       *)
(*   services/chain_monitor.py (sweep completion),                         *)
(*   db/database.py       (SQLite tables and their constraints).           *)
(*                                                                         *)
(* Every `await db.execute(...)` / `await db.fetch_one(...)` is one atomic *)
(* store operation and a suspension point of the coroutine that issues it. *)
(* A coroutine is a task record with a program counter `pc` that names the *)
(* next store operation. Amounts are exact multiples of 0.1 USDT (the REAL *)
(* columns' binary rounding is not modelled).                              *)
(***************************************************************************)
EXTENDS Integers, Sequences, FiniteSets, TLC

VARIABLES
    mnemonic,         \* config.HD_MNEMONIC, fixed for the life of the process
    user_wallets,     \* table user_wallets: set of rows
    recharge_orders,  \* table recharge_orders: sequence, position = id
    user_balances,    \* table user_balances: user_id -> row, for users with a row
    spend_records,    \* table spend_records: sequence of rows
    daily_usage,      \* table daily_usage: <<user_id, usage_date>> -> counters
    address_to_user,  \* WalletManager._address_to_user cache
    credit_log,       \* the "recharge succeeded" log lines of add_balance
    quota_log,        \* the log lines of check_and_deduct: free, paid, denied
    block_number,     \* the chain: the height eth_blockNumber reports
    monitor,          \* ChainMonitor: _running, _last_block, _processed_hashes
    event_loop,       \* asyncio: the poll loop task and the sweep tasks created
    scan,             \* what the latest poll cycle read and did
    chain_txs,        \* the chain: transactions accepted from the hot wallets
    now,              \* the wall clock, in ticks
    tasks,            \* the coroutines in flight, by task
    last,             \* the most recently completed call
    ncalls            \* number of calls started so far

vars == <<mnemonic, user_wallets, recharge_orders, user_balances, spend_records,
          daily_usage, address_to_user, credit_log, quota_log, block_number,
          monitor, event_loop, scan, chain_txs, now, tasks, last, ncalls>>

(***************************************************************************)
(* Bounds of the model.                                                    *)
(***************************************************************************)
MaxCalls == 3
MaxTime == 2
MaxBlock == 6
TicksPerDay == 2

Users == {"u1", "u2"}
TxHashes == {"0xabc", "0xdef"}
Senders == {"0xfrom"}
SweepHashes == {"0xsweep"}
Amounts == {2, 5}
Mnemonics == {"seedA", "seedB"}
Tasks == {"t1", "t2"}

NULL == "NULL"
\* config.HD_MNEMONIC when the environment does not set it
NoSeed == ""

(***************************************************************************)
(* Configuration (config.py). Prices in units of 0.1 USDT.                 *)
(***************************************************************************)
RECHARGE_ORDER_EXPIRE == 1
PRICE_TAROT_DETAIL == 5
PRICE_TAROT_READING == 3
PRICE_AI_CHAT == 1
FREE_TAROT_DAILY == 1
FREE_CHAT_DAILY == 2

\* chain_monitor.py: gas limit of a sweep, log window, startup lookback (the
\* last two scaled from 5000 and 200 blocks)
GAS_LIMIT == 60000
NUM_RPC_ENDPOINTS == 4
LOG_WINDOW == 2
LOOKBACK == 2

Features == {"tarot_reading", "tarot_detail", "ai_chat"}

\* quota._FEATURE_CONFIG: feature -> (daily free limit, unit price, usage field)
FEATURE_CONFIG(feature) ==
    CASE feature = "tarot_reading" ->
           [free_limit |-> FREE_TAROT_DAILY, price |-> PRICE_TAROT_READING,
            usage_field |-> "tarot_count"]
      [] feature = "tarot_detail" ->
           [free_limit |-> 0, price |-> PRICE_TAROT_DETAIL, usage_field |-> NULL]
      [] feature = "ai_chat" ->
           [free_limit |-> FREE_CHAT_DAILY, price |-> PRICE_AI_CHAT,
            usage_field |-> "chat_count"]

(***************************************************************************)
(* Addresses. An address string is modelled by the HD index it is derived  *)
(* from and whether the string holds upper-case hex letters: eth_account   *)
(* returns the EIP-55 checksummed form, whose letters are upper-case       *)
(* wherever the checksum says so. str.lower() clears the flag.             *)
(***************************************************************************)
ForeignAddress == [idx |-> -1, upper |-> FALSE]

\* Whether the checksummed address of index i under seed m holds an
\* upper-case letter (all but a few addresses do).
ChecksumHasUpper(m, i) == ~(m = "seedB" /\ i = 0)

\* WalletManager.derive_address
derive_address(m, index) == [idx |-> index, upper |-> ChecksumHasUpper(m, index)]

\* str.lower()
Lower(address) == [address EXCEPT !.upper = FALSE]

\* date.today() of the clock
Today(t) == t \div TicksPerDay
Days == 0 .. (MaxTime \div TicksPerDay)


(***************************************************************************)
(* Store operations: one SQL statement each (db/database.py runs every     *)
(* statement in its own transaction, `conn.execute` then `conn.commit`).   *)
(***************************************************************************)

\* SELECT * FROM user_wallets WHERE user_id = ?
SelectWalletByUser(wallets, user_id) == {r \in wallets : r.user_id = user_id}

\* SELECT MAX(wallet_index) ...; next_index = (max_idx or -1) + 1 if max_row else 0.
\* The aggregate always returns a row; max_idx is NULL on an empty table, and
\* Python's `or` also replaces a max_idx of 0, which is falsy, by -1.
NextIndex(wallets) ==
    LET indices == {r.wallet_index : r \in wallets}
        max_idx == CHOOSE i \in indices : \A j \in indices : j <= i
    IN  IF wallets = {} THEN (-1) + 1
        ELSE IF max_idx = 0 THEN (-1) + 1
        ELSE max_idx + 1


\* Fault: a table with the primary key only, wallet_index and address not UNIQUE.
WalletInsertAllowed_PrimaryKeyOnly(wallets, row) ==
    \A r \in wallets : r.user_id # row.user_id

\* The constraints of user_wallets: user_id PRIMARY KEY, wallet_index UNIQUE,
\* address UNIQUE. An INSERT that breaks one raises sqlite3.IntegrityError.
WalletInsertAllowed(wallets, row) ==
    \A r \in wallets : /\ r.user_id # row.user_id
                       /\ r.wallet_index # row.wallet_index
                       /\ r.address # row.address

\* Fault: the lookup ignores the address and returns any wallet's user.
SelectUserByLowerAddress_AnyWallet(wallets, addr_lower) ==
    {r.user_id : r \in wallets}

\* SELECT user_id FROM user_wallets WHERE LOWER(address) = ?
SelectUserByLowerAddress(wallets, addr_lower) ==
    {r.user_id : r \in {x \in wallets : Lower(x.address) = addr_lower}}


\* Faults of the duplicate check: the check left out, and a check that looks
\* at swept orders only.
TxHashUsed_Never(orders, tx_hash) == FALSE

TxHashUsed_SweptOnly(orders, tx_hash) ==
    \E i \in DOMAIN orders : /\ orders[i].tx_hash = tx_hash
                             /\ orders[i].status = "swept"

\* SELECT id FROM recharge_orders WHERE tx_hash = ? AND status IN ('confirmed','swept')
TxHashUsed(orders, tx_hash) ==
    \E i \in DOMAIN orders : /\ orders[i].tx_hash = tx_hash
                             /\ orders[i].status \in {"confirmed", "swept"}

\* PaymentManager.get_pending_order_by_address: SELECT ... WHERE deposit_address = ?
\* AND status = 'pending' ORDER BY created_at DESC LIMIT 1. The comparison of
\* the TEXT column is case-sensitive. Rows with equal created_at may come in
\* either order: the result is the set of rows the statement may return.
get_pending_order_by_address(orders, deposit_address) ==
    LET cand == {i \in DOMAIN orders : /\ orders[i].deposit_address = deposit_address
                                       /\ orders[i].status = "pending"}
    IN  {i \in cand : \A j \in cand : orders[j].created_at <= orders[i].created_at}

\* UPDATE recharge_orders SET status = 'confirmed', amount, tx_hash, from_address,
\* confirmed_at WHERE order_id = ?
UpdateOrderConfirmed(orders, id, amount, tx_hash, from_address, time) ==
    [orders EXCEPT ![id] = [@ EXCEPT !.status = "confirmed", !.amount = amount,
                                     !.tx_hash = tx_hash,
                                     !.from_address = from_address,
                                     !.confirmed_at = time]]

\* INSERT INTO recharge_orders (...) VALUES (?, ?, 0, ?, 'pending')
PendingOrder(id, user_id, deposit_address, time) ==
    [user_id |-> user_id, order_id |-> id, amount |-> 0,
     deposit_address |-> deposit_address, status |-> "pending", tx_hash |-> NULL,
     sweep_tx_hash |-> NULL, from_address |-> NULL, created_at |-> time,
     confirmed_at |-> -1]

\* INSERT INTO recharge_orders (...) VALUES (?, ?, ?, ?, 'confirmed', ?, ?, now)
ConfirmedOrder(id, user_id, amount, deposit_address, tx_hash, from_address, time) ==
    [user_id |-> user_id, order_id |-> id, amount |-> amount,
     deposit_address |-> deposit_address, status |-> "confirmed",
     tx_hash |-> tx_hash, sweep_tx_hash |-> NULL, from_address |-> from_address,
     created_at |-> time, confirmed_at |-> time]

\* PaymentManager._expire_user_pending_orders: UPDATE ... SET status = 'expired'
\* WHERE user_id = ? AND status = 'pending'
expire_user_pending_orders(orders, user_id) ==
    [i \in DOMAIN orders |->
        IF orders[i].user_id = user_id /\ orders[i].status = "pending"
        THEN [orders[i] EXCEPT !.status = "expired"] ELSE orders[i]]

\* Fault: the expiry ignores the age of the order.
expire_old_orders_IgnoreAge(orders, time) ==
    [i \in DOMAIN orders |->
        IF orders[i].status = "pending"
        THEN [orders[i] EXCEPT !.status = "expired"] ELSE orders[i]]

\* PaymentManager.expire_old_orders: UPDATE ... SET status = 'expired' WHERE
\* status = 'pending' AND created_at + RECHARGE_ORDER_EXPIRE seconds < now
expire_old_orders(orders, time) ==
    [i \in DOMAIN orders |->
        IF /\ orders[i].status = "pending"
           /\ orders[i].created_at + RECHARGE_ORDER_EXPIRE < time
        THEN [orders[i] EXCEPT !.status = "expired"] ELSE orders[i]]

\* PaymentManager.mark_order_swept: UPDATE ... SET status = 'swept',
\* sweep_tx_hash = ? WHERE order_id = ?
mark_order_swept(orders, id, sweep_tx_hash) ==
    [orders EXCEPT ![id] = [@ EXCEPT !.status = "swept",
                                     !.sweep_tx_hash = sweep_tx_hash]]

\* ChainMonitor._sweep_to_cold: SELECT * FROM recharge_orders WHERE
\* deposit_address = ? AND tx_hash = ? ORDER BY confirmed_at DESC LIMIT 1
SelectOrderForSweep(orders, hot_address, deposit_tx_hash) ==
    LET cand == {i \in DOMAIN orders : /\ orders[i].deposit_address = hot_address
                                       /\ orders[i].tx_hash = deposit_tx_hash}
    IN  {i \in cand : \A j \in cand : orders[j].confirmed_at <= orders[i].confirmed_at}

\* Fault: the balance read always covers the price.
get_balance_AlwaysEnough(balances, user_id) == 100

\* PaymentManager.get_balance: the row's balance, 0.0 without a row
get_balance(balances, user_id) ==
    IF user_id \in DOMAIN balances THEN balances[user_id].balance ELSE 0


\* Fault: the conflict branch overwrites the balance instead of adding to it.
UpsertBalance_Overwrite(balances, user_id, amount) ==
    [u \in DOMAIN balances \cup {user_id} |->
        IF u = user_id
        THEN [balance |-> amount, total_recharged |-> amount,
              total_spent |-> IF u \in DOMAIN balances THEN balances[u].total_spent ELSE 0]
        ELSE balances[u]]

\* add_balance's upsert: INSERT (user_id, balance, total_recharged) ... ON
\* CONFLICT(user_id) DO UPDATE SET balance = balance + excluded.balance,
\* total_recharged = total_recharged + excluded.total_recharged
UpsertBalance(balances, user_id, amount) ==
    IF user_id \in DOMAIN balances
    THEN [balances EXCEPT ![user_id] =
            [@ EXCEPT !.balance = @ + amount, !.total_recharged = @ + amount]]
    ELSE [u \in DOMAIN balances \cup {user_id} |->
            IF u = user_id
            THEN [balance |-> amount, total_recharged |-> amount, total_spent |-> 0]
            ELSE balances[u]]


\* Fault: the debit takes the amount twice from the balance.
UpdateDeducted_Twice(balances, user_id, amount) ==
    IF user_id \in DOMAIN balances
    THEN [balances EXCEPT ![user_id] =
            [@ EXCEPT !.balance = @ - 2 * amount, !.total_spent = @ + amount]]
    ELSE balances

\* Fault: the debit leaves total_spent alone.
UpdateDeducted_NoSpent(balances, user_id, amount) ==
    IF user_id \in DOMAIN balances
    THEN [balances EXCEPT ![user_id] = [@ EXCEPT !.balance = @ - amount]]
    ELSE balances

\* deduct_balance's UPDATE user_balances SET balance = balance - ?,
\* total_spent = total_spent + ? WHERE user_id = ?  (no condition on balance)
UpdateDeducted(balances, user_id, amount) ==
    IF user_id \in DOMAIN balances
    THEN [balances EXCEPT ![user_id] =
            [@ EXCEPT !.balance = @ - amount, !.total_spent = @ + amount]]
    ELSE balances

\* Fault: the user's latest spend record is overwritten instead of a new
\* record being added.
InsertSpend_Replace(records, user_id, feature, amount) ==
    LET mine == {i \in DOMAIN records : records[i].user_id = user_id}
        row == [user_id |-> user_id, feature |-> feature, amount |-> amount]
    IN  IF mine = {}
        THEN Append(records, row)
        ELSE [records EXCEPT ![CHOOSE i \in mine : \A j \in mine : j <= i] = row]

\* deduct_balance's INSERT INTO spend_records (user_id, feature, amount)
InsertSpend(records, user_id, feature, amount) ==
    Append(records, [user_id |-> user_id, feature |-> feature, amount |-> amount])

\* Fault: the day's usage always reads as zero.
get_daily_usage_Zero(usage, user_id, today, field) == 0

\* QuotaManager._get_daily_usage
get_daily_usage(usage, user_id, today, field) ==
    IF field = "tarot_count" THEN usage[<<user_id, today>>].tarot_count
    ELSE usage[<<user_id, today>>].chat_count

\* QuotaManager._increment_usage: upsert of the (user_id, usage_date) row,
\* the named counter + 1 (a missing row reads as zero counters)
increment_usage(usage, user_id, today, field) ==
    IF field = "tarot_count"
    THEN [usage EXCEPT ![<<user_id, today>>].tarot_count = @ + 1]
    ELSE [usage EXCEPT ![<<user_id, today>>].chat_count = @ + 1]


(***************************************************************************)
(* Coroutines. A task holds the arguments of the call, the locals read so  *)
(* far, the position `pc` (the store operation it performs next) and, once *)
(* pc = "done", the value returned or the exception raised.                *)
(***************************************************************************)
NoRet == [kind |-> "", user_id |-> NULL, order_id |-> 0, amount |-> 0,
          wallet_index |-> -1, address |-> ForeignAddress, is_free |-> FALSE]

IdleTask == [op |-> "idle", pc |-> "done", user_id |-> NULL,
             address |-> ForeignAddress, amount |-> 0, tx_hash |-> NULL,
             from_address |-> NULL, feature |-> NULL, sweep_tx_hash |-> NULL,
             order |-> 0, next_index |-> -1, today |-> 0, cold_wallet |-> FALSE,
             nonce |-> -1, gas_price |-> -1, bnb_balance |-> 0, attempt |-> 0,
             url |-> -1, tried |-> << >>, ret |-> NoRet]

\* The store as one record, so that a coroutine step is a function of it.
Store == [user_wallets |-> user_wallets, recharge_orders |-> recharge_orders,
          user_balances |-> user_balances, spend_records |-> spend_records,
          daily_usage |-> daily_usage, address_to_user |-> address_to_user,
          credit_log |-> credit_log, quota_log |-> quota_log, now |-> now,
          mnemonic |-> mnemonic]

Goto(t, pc) == [t EXCEPT !.pc = pc]
Return(t, ret) == [t EXCEPT !.pc = "done", !.ret = ret]
Outcome(db, t) == {[db |-> db, t |-> t]}

WalletRet(row) == [NoRet EXCEPT !.kind = "wallet", !.user_id = row.user_id,
                                !.wallet_index = row.wallet_index,
                                !.address = row.address]

CachePut(cache, addr_lower, user_id) ==
    [a \in DOMAIN cache \cup {addr_lower} |->
        IF a = addr_lower THEN user_id ELSE cache[a]]

\* WalletManager.get_or_create_wallet
get_or_create_wallet(db, t) ==
    CASE t.pc = "select_existing" ->
           LET existing == SelectWalletByUser(db.user_wallets, t.user_id)
           IN  IF existing # {}
               THEN Outcome(db, Return(t, WalletRet(CHOOSE r \in existing : TRUE)))
               ELSE Outcome(db, Goto(t, "select_max_index"))
      [] t.pc = "select_max_index" ->
           Outcome(db, [t EXCEPT !.pc = "insert_wallet",
                                 !.next_index = NextIndex(db.user_wallets)])
      [] t.pc = "insert_wallet" ->
           LET row == [user_id |-> t.user_id, wallet_index |-> t.next_index,
                       address |-> derive_address(db.mnemonic, t.next_index)]
           IN  IF WalletInsertAllowed(db.user_wallets, row)
               THEN Outcome([db EXCEPT !.user_wallets = @ \cup {row}],
                            Goto(t, "update_cache"))
               ELSE Outcome(db, Return(t, [NoRet EXCEPT !.kind = "IntegrityError"]))
      [] t.pc = "update_cache" ->
           LET row == [user_id |-> t.user_id, wallet_index |-> t.next_index,
                       address |-> derive_address(db.mnemonic, t.next_index)]
           IN  Outcome([db EXCEPT !.address_to_user =
                              CachePut(@, Lower(row.address), t.user_id)],
                       Return(t, WalletRet(row)))

\* WalletManager.get_user_by_address: the cache, then the table; a hit in the
\* table fills the cache. NULL when neither knows the address.
get_user_by_address(db, address) ==
    LET addr_lower == Lower(address)
        rows == SelectUserByLowerAddress(db.user_wallets, addr_lower)
    IN  IF addr_lower \in DOMAIN db.address_to_user
        THEN [user_id |-> db.address_to_user[addr_lower], db |-> db]
        ELSE IF rows # {}
        THEN LET u == CHOOSE x \in rows : TRUE
             IN  [user_id |-> u,
                  db |-> [db EXCEPT !.address_to_user = CachePut(@, addr_lower, u)]]
        ELSE [user_id |-> NULL, db |-> db]

\* PaymentManager.create_recharge_order
create_recharge_order(db, t) ==
    CASE t.pc = "expire_user_pending" ->
           Outcome([db EXCEPT !.recharge_orders =
                          expire_user_pending_orders(@, t.user_id)],
                   Goto(t, "insert_pending"))
      [] t.pc = "insert_pending" ->
           LET id == Len(db.recharge_orders) + 1
           IN  Outcome([db EXCEPT !.recharge_orders =
                          Append(@, PendingOrder(id, t.user_id, t.address, db.now))],
                       Return(t, [NoRet EXCEPT !.kind = "order", !.order_id = id,
                                               !.user_id = t.user_id,
                                               !.address = t.address]))

\* handlers/payment.py recharge_command (go_recharge_callback does the same):
\* get_or_create_wallet, then create_recharge_order with the wallet's address.
\* Only RuntimeError is caught: an IntegrityError ends the handler.
recharge_command(db, t) ==
    IF t.pc \in {"expire_user_pending", "insert_pending"}
    THEN create_recharge_order(db, t)
    ELSE {IF x.t.pc = "done" /\ x.t.ret.kind = "wallet"
          THEN [db |-> x.db,
                t |-> [x.t EXCEPT !.pc = "expire_user_pending",
                                  !.address = x.t.ret.address, !.ret = NoRet]]
          ELSE x
          : x \in get_or_create_wallet(db, t)}

\* The upsert of PaymentManager.add_balance and its log line; ValueError when
\* the amount is not positive.
CreditBalance(db, user_id, amount, tx_hash) ==
    [db EXCEPT !.user_balances = UpsertBalance(@, user_id, amount),
               !.credit_log = Append(@, [user_id |-> user_id, amount |-> amount,
                                         tx_hash |-> tx_hash])]

\* PaymentManager.add_balance
add_balance(db, t) ==
    IF t.amount <= 0
    THEN Outcome(db, Return(t, [NoRet EXCEPT !.kind = "ValueError"]))
    ELSE Outcome(CreditBalance(db, t.user_id, t.amount, t.tx_hash),
                 Return(t, [NoRet EXCEPT !.kind = "balance", !.user_id = t.user_id,
                                         !.amount = t.amount]))

\* PaymentManager.confirm_order_by_address
confirm_order_by_address(db, t) ==
    CASE t.pc = "check_tx_hash" ->
           IF t.tx_hash # "" /\ TxHashUsed(db.recharge_orders, t.tx_hash)
           THEN Outcome(db, Return(t, [NoRet EXCEPT !.kind = "None"]))
           ELSE Outcome(db, Goto(t, "select_pending"))
      [] t.pc = "select_pending" ->
           LET found == get_pending_order_by_address(db.recharge_orders, t.address)
           IN  IF found # {}
               THEN {[db |-> db, t |-> [t EXCEPT !.pc = "update_confirmed",
                                                 !.order = id,
                                                 !.ret = [NoRet EXCEPT
                                                    !.user_id = db.recharge_orders[id].user_id,
                                                    !.order_id = id,
                                                    !.amount = db.recharge_orders[id].amount,
                                                    !.address = db.recharge_orders[id].deposit_address]]]
                     : id \in found}
               ELSE Outcome(db, Goto(t, "lookup_user"))
      [] t.pc = "update_confirmed" ->
           Outcome([db EXCEPT !.recharge_orders =
                          UpdateOrderConfirmed(@, t.order, t.amount, t.tx_hash,
                                               t.from_address, db.now)],
                   Goto(t, "credit"))
      [] t.pc = "lookup_user" ->
           LET got == get_user_by_address(db, t.address)
           IN  IF got.user_id = NULL
               THEN Outcome(got.db, Return(t, [NoRet EXCEPT !.kind = "None"]))
               ELSE Outcome(got.db, [t EXCEPT !.pc = "insert_confirmed",
                                              !.ret = [NoRet EXCEPT !.user_id = got.user_id]])
      [] t.pc = "insert_confirmed" ->
           LET id == Len(db.recharge_orders) + 1
           IN  Outcome([db EXCEPT !.recharge_orders =
                          Append(@, ConfirmedOrder(id, t.ret.user_id, t.amount, t.address,
                                                   t.tx_hash, t.from_address, db.now))],
                       [t EXCEPT !.pc = "credit", !.order = id,
                                 !.ret = [NoRet EXCEPT !.user_id = t.ret.user_id,
                                                       !.order_id = id,
                                                       !.amount = t.amount,
                                                       !.address = t.address]])
      [] t.pc = "credit" ->
           IF t.amount <= 0
           THEN Outcome(db, Return(t, [NoRet EXCEPT !.kind = "ValueError"]))
           ELSE Outcome(CreditBalance(db, t.ret.user_id, t.amount, t.tx_hash),
                        Return(t, [t.ret EXCEPT !.kind = "order"]))


\* The log line check_and_deduct writes for a free use, a paid use and a
\* denial, with the day of the call.
QuotaLine(t, kind) ==
    [user_id |-> t.user_id, feature |-> t.feature, today |-> t.today, kind |-> kind]

\* What deduct_balance's caller does with its result: deduct_balance called
\* directly returns it; check_and_deduct denies on False, and on True counts
\* the use (features with a usage field), reads the new balance and allows
\* the use as a paid one.
AfterDeduct(t, success) ==
    LET config == FEATURE_CONFIG(t.feature)
    IN  IF t.op = "deduct_balance"
        THEN Return(t, [NoRet EXCEPT !.kind = IF success THEN "True" ELSE "False",
                                     !.user_id = t.user_id])
        ELSE IF ~success
        THEN Return(t, [NoRet EXCEPT !.kind = "denied", !.user_id = t.user_id,
                                     !.amount = config.price])
        ELSE IF config.usage_field # NULL
        THEN Goto(t, "increment_paid")
        ELSE Goto(t, "read_new_balance")

\* PaymentManager.deduct_balance
deduct_balance(db, t) ==
    CASE t.pc = "read_balance" ->
           IF t.amount <= 0
           THEN Outcome(db, AfterDeduct(t, TRUE))
           ELSE IF get_balance(db.user_balances, t.user_id) < t.amount
           THEN Outcome(db, AfterDeduct(t, FALSE))
           ELSE Outcome(db, Goto(t, "update_deducted"))
      [] t.pc = "update_deducted" ->
           Outcome([db EXCEPT !.user_balances = UpdateDeducted(@, t.user_id, t.amount)],
                   Goto(t, "insert_spend"))
      [] t.pc = "insert_spend" ->
           Outcome([db EXCEPT !.spend_records =
                          InsertSpend(@, t.user_id, t.feature, t.amount)],
                   AfterDeduct(t, TRUE))

\* QuotaManager.check_and_deduct (t.amount holds the feature's unit price)
check_and_deduct(db, t) ==
    LET config == FEATURE_CONFIG(t.feature)
    IN  CASE t.pc = "read_usage" ->
               LET used_count == get_daily_usage(db.daily_usage, t.user_id, t.today,
                                                 config.usage_field)
               IN  IF config.free_limit > 0 /\ used_count < config.free_limit
                   THEN Outcome(db, Goto(t, "increment_free"))
                   ELSE Outcome(db, Goto(t, "check_balance"))
          [] t.pc = "increment_free" ->
               Outcome([db EXCEPT !.daily_usage =
                              increment_usage(@, t.user_id, t.today, config.usage_field)],
                       Goto(t, "read_balance_free"))
          [] t.pc = "read_balance_free" ->
               Outcome([db EXCEPT !.quota_log = Append(@, QuotaLine(t, "free"))],
                       Return(t, [NoRet EXCEPT !.kind = "allowed", !.is_free = TRUE,
                                               !.user_id = t.user_id]))
          [] t.pc = "check_balance" ->
               IF get_balance(db.user_balances, t.user_id) < config.price
               THEN Outcome([db EXCEPT !.quota_log = Append(@, QuotaLine(t, "denied"))],
                            Return(t, [NoRet EXCEPT !.kind = "denied",
                                                    !.user_id = t.user_id,
                                                    !.amount = config.price]))
               ELSE Outcome(db, Goto(t, "read_balance"))
          [] t.pc = "increment_paid" ->
               Outcome([db EXCEPT !.daily_usage =
                              increment_usage(@, t.user_id, t.today, config.usage_field)],
                       Goto(t, "read_new_balance"))
          [] t.pc = "read_new_balance" ->
               Outcome([db EXCEPT !.quota_log = Append(@, QuotaLine(t, "paid"))],
                       Return(t, [NoRet EXCEPT !.kind = "allowed", !.user_id = t.user_id,
                                               !.amount = config.price]))
          [] t.pc \in {"read_balance", "update_deducted", "insert_spend"} ->
               deduct_balance(db, t)

\* Fault: the gas cost of the sweep is taken to be nothing.
GasNeeded_Zero(gas_price) == 0

\* gas_needed = 60000 * gas_price
GasNeeded(gas_price) == GAS_LIMIT * gas_price

\* ChainMonitor._sweep_to_cold. The task holds what the configuration and the
\* RPC endpoint answer: cold_wallet (BSC_WALLET_ADDRESS is set), nonce and
\* gas_price (-1: the call returned None), bnb_balance, and sweep_tx_hash, the
\* result of the broadcast (NULL: rejected). Every return before
\* "send_raw_transaction" happens with nothing broadcast.
sweep_to_cold(db, t) ==
    CASE t.pc = "lookup_hot_user" ->
           IF ~t.cold_wallet
           THEN Outcome(db, Return(t, [NoRet EXCEPT !.kind = "no_cold_wallet"]))
           ELSE LET got == get_user_by_address(db, t.address)
                IN  IF got.user_id = NULL
                    THEN Outcome(got.db, Return(t, [NoRet EXCEPT !.kind = "no_user"]))
                    ELSE Outcome(got.db, [t EXCEPT !.pc = "select_wallet",
                                                   !.user_id = got.user_id])
      [] t.pc = "select_wallet" ->
           IF SelectWalletByUser(db.user_wallets, t.user_id) = {}
           THEN Outcome(db, Return(t, [NoRet EXCEPT !.kind = "no_wallet"]))
           ELSE Outcome(db, Goto(t, "rpc_nonce_gas_price"))
      [] t.pc = "rpc_nonce_gas_price" ->
           IF t.nonce = -1 \/ t.gas_price = -1
           THEN Outcome(db, Return(t, [NoRet EXCEPT !.kind = "rpc_failed"]))
           ELSE Outcome(db, Goto(t, "rpc_balance"))
      [] t.pc = "rpc_balance" ->
           IF t.bnb_balance < GasNeeded(t.gas_price)
           THEN Outcome(db, Return(t, [NoRet EXCEPT !.kind = "low_gas"]))
           ELSE Outcome(db, Goto(t, "send_raw_transaction"))
      [] t.pc = "send_raw_transaction" ->
           IF t.sweep_tx_hash = NULL
           THEN Outcome(db, Return(t, [NoRet EXCEPT !.kind = "broadcast_rejected"]))
           ELSE Outcome(db, Goto(t, "select_swept_order"))
      [] t.pc = "select_swept_order" ->
           LET found == SelectOrderForSweep(db.recharge_orders, t.address, t.tx_hash)
           IN  IF found = {}
               THEN Outcome(db, Return(t, [NoRet EXCEPT !.kind = "no_order"]))
               ELSE {[db |-> db, t |-> [t EXCEPT !.pc = "mark_swept", !.order = id]]
                     : id \in found}
      [] t.pc = "mark_swept" ->
           Outcome([db EXCEPT !.recharge_orders =
                          mark_order_swept(@, t.order, t.sweep_tx_hash)],
                   Return(t, [NoRet EXCEPT !.kind = "swept", !.order_id = t.order]))

\* One store operation of the coroutine t: the outcomes it may have.
Step(db, t) ==
    CASE t.op = "get_or_create_wallet" -> get_or_create_wallet(db, t)
      [] t.op = "create_recharge_order" -> create_recharge_order(db, t)
      [] t.op = "recharge_command" -> recharge_command(db, t)
      [] t.op = "confirm_order_by_address" -> confirm_order_by_address(db, t)
      [] t.op = "add_balance" -> add_balance(db, t)
      [] t.op = "deduct_balance" -> deduct_balance(db, t)
      [] t.op = "check_and_deduct" -> check_and_deduct(db, t)
      [] t.op = "sweep_to_cold" -> sweep_to_cold(db, t)
      [] t.op = "expire_old_orders" ->
           Outcome([db EXCEPT !.recharge_orders = expire_old_orders(@, db.now)],
                   Return(t, [NoRet EXCEPT !.kind = "None"]))

\* A coroutine run from t to its return with no other coroutine in between.
RECURSIVE Run(_, _)
Run(db, t) ==
    IF t.pc = "done" THEN Outcome(db, t)
    ELSE UNION {Run(x.db, x.t) : x \in Step(db, t)}

(***************************************************************************)
(* The calls the program makes.                                            *)
(***************************************************************************)
\* handlers/payment.py: recharge_command and go_recharge_callback
WalletCalls ==
    {[IdleTask EXCEPT !.op = "get_or_create_wallet", !.pc = "select_existing",
                      !.user_id = u] : u \in Users}

\* The same handlers pass the wallet they got: create_recharge_order(user_id,
\* wallet["address"]).
CreateCalls ==
    {[IdleTask EXCEPT !.op = "create_recharge_order", !.pc = "expire_user_pending",
                      !.user_id = w.user_id, !.address = w.address]
     : w \in user_wallets}

\* A /recharge message or a press of the recharge button.
RechargeCalls ==
    {[IdleTask EXCEPT !.op = "recharge_command", !.pc = "select_existing",
                      !.user_id = u] : u \in Users}

\* ChainMonitor._check_new_transfers passes the lower-cased recipient of a
\* Transfer log, its positive amount and its non-empty transaction hash.
PolledAddresses == {[idx |-> i, upper |-> FALSE] : i \in {0, 1}}

ConfirmCalls ==
    {[IdleTask EXCEPT !.op = "confirm_order_by_address", !.pc = "check_tx_hash",
                      !.address = a, !.amount = m, !.tx_hash = h, !.from_address = f]
     : a \in PolledAddresses, m \in Amounts, h \in TxHashes, f \in Senders}

\* handlers/payment.py: topup_command (amount > 0 is checked by the handler)
TopupCalls ==
    {[IdleTask EXCEPT !.op = "add_balance", !.pc = "upsert_balance", !.user_id = u,
                      !.amount = m, !.tx_hash = "manual_topup"]
     : u \in Users, m \in Amounts}

DeductCalls ==
    {[IdleTask EXCEPT !.op = "deduct_balance", !.pc = "read_balance", !.user_id = u,
                      !.feature = f, !.amount = FEATURE_CONFIG(f).price]
     : u \in Users, f \in Features}

\* handlers/chat.py, handlers/tarot.py: check_and_deduct(feature, user_id);
\* a feature without a usage field reads no usage and goes to the balance.
QuotaCalls ==
    {[IdleTask EXCEPT !.op = "check_and_deduct",
                      !.pc = IF FEATURE_CONFIG(f).usage_field = NULL
                             THEN "check_balance" ELSE "read_usage",
                      !.user_id = u, !.feature = f,
                      !.amount = FEATURE_CONFIG(f).price, !.today = Today(now)]
     : u \in Users, f \in Features}

\* A deposit to the address with the hash was confirmed: the only place that
\* starts a sweep is the branch `if confirmed:` of _check_new_transfers.
ConfirmedDeposit(a, h) ==
    \E i \in DOMAIN recharge_orders :
        /\ recharge_orders[i].tx_hash = h
        /\ Lower(recharge_orders[i].deposit_address) = a
        /\ recharge_orders[i].status \in {"confirmed", "swept"}

\* ChainMonitor._check_new_transfers starts _sweep_to_cold(to_addr_lower,
\* amount, tx_hash) for a confirmed deposit; the rest is what the sweep reads
\* from the configuration and the chain.
SweepCalls ==
    {[IdleTask EXCEPT !.op = "sweep_to_cold", !.pc = "lookup_hot_user",
                      !.address = d[1], !.tx_hash = d[2], !.cold_wallet = e[1],
                      !.nonce = e[2], !.gas_price = e[3], !.bnb_balance = e[4],
                      !.sweep_tx_hash = e[5]]
     : d \in {x \in PolledAddresses \X TxHashes : ConfirmedDeposit(x[1], x[2])},
       e \in BOOLEAN \X {-1, 0} \X {-1, 1} \X {0, GAS_LIMIT}
              \X (SweepHashes \cup {NULL})}

ExpireCalls == {[IdleTask EXCEPT !.op = "expire_old_orders", !.pc = "expire_old"]}

(***************************************************************************)
(* Initial state: empty tables (db.init_tables on a new database) and a    *)
(* monitor that was constructed and not started.                           *)
(***************************************************************************)
\* ChainMonitor.__init__. from_block / to_block hold the range of the latest
\* eth_getLogs query and first_from the first block of the first query (-1:
\* none yet); start_head is the chain height when the poll loop started.
NewMonitor == [running |-> FALSE, last_block |-> 0, processed_hashes |-> {},
               from_block |-> -1, to_block |-> -1, first_from |-> -1,
               start_head |-> -1, rpc_index |-> 0]

\* The event loop of a new process: no poll loop task (poll_pc "none"), no
\* sweep task created.
NoTasks == [poll_tasks |-> 0, poll_pc |-> "none", created |-> {}]

\* No poll cycle yet. A cycle leaves here the batch eth_getLogs returned, how
\* many of its logs the loop got through, and the positions in the batch of
\* the logs confirm_order_by_address was called for, that were confirmed,
\* whose notification could not be sent and that got a sweep task; raised is
\* the exception that ended the cycle, NULL if none.
NoScan == [logs |-> << >>, handled |-> 0, called |-> {}, confirmed |-> {},
           notify_failed |-> {}, sweep_created |-> {}, raised |-> NULL,
           after_restart |-> FALSE]

\* Everything but the configured seed and the height of the chain.
Constructed ==
    /\ user_wallets = {}
    /\ recharge_orders = << >>
    /\ user_balances = [u \in {} |-> 0]
    /\ spend_records = << >>
    /\ daily_usage = [k \in Users \X Days |-> [tarot_count |-> 0, chat_count |-> 0]]
    /\ address_to_user = [a \in {} |-> NULL]
    /\ credit_log = << >>
    /\ quota_log = << >>
    /\ monitor = NewMonitor
    /\ event_loop = NoTasks
    /\ scan = NoScan
    /\ chain_txs = {}
    /\ now = 0
    /\ tasks = [p \in Tasks |-> IdleTask]
    /\ last = IdleTask
    /\ ncalls = 0

Init ==
    /\ mnemonic \in Mnemonics
    /\ block_number = 0
    /\ Constructed

Commit(db) ==
    /\ user_wallets' = db.user_wallets
    /\ recharge_orders' = db.recharge_orders
    /\ user_balances' = db.user_balances
    /\ spend_records' = db.spend_records
    /\ daily_usage' = db.daily_usage
    /\ address_to_user' = db.address_to_user
    /\ credit_log' = db.credit_log
    /\ quota_log' = db.quota_log

\* A call made while no other coroutine runs: the whole coroutine.
Call(c) ==
    /\ ncalls < MaxCalls
    /\ \E x \in Run(Store, c) : Commit(x.db) /\ last' = x.t
    /\ ncalls' = ncalls + 1
    /\ UNCHANGED <<mnemonic, block_number, monitor, event_loop, scan, chain_txs,
                   now, tasks>>

GetOrCreateWallet == \E c \in WalletCalls : Call(c)
CreateRechargeOrder == \E c \in CreateCalls : Call(c)
ConfirmOrderByAddress == \E c \in ConfirmCalls : Call(c)
AddBalance == \E c \in TopupCalls : Call(c)
DeductBalance == \E c \in DeductCalls : Call(c)
CheckAndDeduct == \E c \in QuotaCalls : Call(c)
SweepToCold == \E c \in SweepCalls : Call(c)
ExpireOldOrders == \E c \in ExpireCalls : Call(c)

Tick ==
    /\ now < MaxTime
    /\ now' = now + 1
    /\ UNCHANGED <<mnemonic, user_wallets, recharge_orders, user_balances,
                   spend_records, daily_usage, address_to_user, credit_log,
                   quota_log, block_number, monitor, event_loop, scan,
                   chain_txs, tasks, last, ncalls>>

Next ==
    \/ GetOrCreateWallet
    \/ CreateRechargeOrder
    \/ ConfirmOrderByAddress
    \/ AddBalance
    \/ DeductBalance
    \/ CheckAndDeduct
    \/ SweepToCold
    \/ ExpireOldOrders
    \/ Tick

Spec == Init /\ [][Next]_vars


(***************************************************************************)
(* Concurrent coroutines: a task starts a call and then performs its store *)
(* operations one at a time, other tasks' operations in between.           *)
(***************************************************************************)
Begin(p, c) ==
    /\ tasks[p].pc = "done"
    /\ ncalls < MaxCalls
    /\ tasks' = [tasks EXCEPT ![p] = c]
    /\ ncalls' = ncalls + 1
    /\ UNCHANGED <<mnemonic, user_wallets, recharge_orders, user_balances,
                   spend_records, daily_usage, address_to_user, credit_log,
                   quota_log, block_number, monitor, event_loop, scan,
                   chain_txs, now, last>>

TaskStep(p) ==
    /\ tasks[p].pc # "done"
    /\ \E x \in Step(Store, tasks[p]) :
          /\ Commit(x.db)
          /\ tasks' = [tasks EXCEPT ![p] = x.t]
    /\ UNCHANGED <<mnemonic, block_number, monitor, event_loop, scan, chain_txs,
                   now, last, ncalls>>

\* Concurrent get_or_create_wallet calls (two /recharge updates in flight).
BeginWallet == \E p \in Tasks : \E c \in WalletCalls : Begin(p, c)
StepWallet == \E p \in Tasks : TaskStep(p)
NextWallet == BeginWallet \/ StepWallet
SpecWallet == Init /\ [][NextWallet]_vars

\* Concurrent confirmations (two poll cycles or two processes on one store),
\* after wallets and orders were created.
BeginConfirm == \E p \in Tasks : \E c \in ConfirmCalls : Begin(p, c)
StepConfirm == \E p \in Tasks : TaskStep(p)
NextConfirm ==
    \/ GetOrCreateWallet
    \/ CreateRechargeOrder
    \/ BeginConfirm
    \/ StepConfirm
SpecConfirm == Init /\ [][NextConfirm]_vars

\* Concurrent paid actions of users with a balance.
BeginDeduct == \E p \in Tasks : \E c \in DeductCalls : Begin(p, c)
BeginQuota == \E p \in Tasks : \E c \in QuotaCalls : Begin(p, c)
StepDeduct == \E p \in Tasks : TaskStep(p)
NextDeduct ==
    \/ AddBalance
    \/ BeginDeduct
    \/ BeginQuota
    \/ StepDeduct
SpecDeduct == Init /\ [][NextDeduct]_vars


(***************************************************************************)
(* The chain poller (services/chain_monitor.py). An eth_blockNumber call   *)
(* answers with the chain height, or fails on every endpoint, and then     *)
(* _get_block_number returns 0.                                            *)
(***************************************************************************)
\* Fault: the upper bound of the query ignores the window.
Min_First(a, b) == a

Min(a, b) == IF a <= b THEN a ELSE b
Max(a, b) == IF a >= b THEN a ELSE b

\* ChainMonitor._get_block_number: what the call may return
BlockNumberAnswers == {block_number, 0}

\* The Transfer logs an eth_getLogs answer may hold: recipient (as in the
\* topic, compared lower-cased), decoded amount (0: undecodable or zero
\* data), transaction hash, sender.
TransferLogs ==
    [to : PolledAddresses, amount : Amounts \cup {0}, tx_hash : TxHashes,
     from : Senders]

\* WalletManager.load_cache: every wallet row's lower-cased address -> user
load_cache(cache, wallets) ==
    [a \in DOMAIN cache \cup {Lower(w.address) : w \in wallets} |->
        IF \E w \in wallets : Lower(w.address) = a
        THEN (CHOOSE w \in wallets : Lower(w.address) = a).user_id
        ELSE cache[a]]

\* WalletManager.get_all_addresses: the lower-cased addresses; fills the
\* cache for the addresses it does not hold.
get_all_addresses(wallets) == {Lower(w.address) : w \in wallets}

SyncCache(cache, wallets) ==
    [a \in DOMAIN cache \cup get_all_addresses(wallets) |->
        IF a \in DOMAIN cache THEN cache[a]
        ELSE (CHOOSE w \in wallets : Lower(w.address) = a).user_id]

\* The failure a poll cycle may meet: none; bot.send_message raises; the
\* store read of _notify_user raises; the UPDATE of expire_old_orders raises.
Faults == {"none", "send_message", "get_balance", "expire_old_orders"}

\* Fault: a failure to send the notification leaves _notify_user.
notify_user_SendRaises(fault) ==
    IF fault \in {"get_balance", "send_message"} THEN "Exception" ELSE NULL

\* ChainMonitor._notify_user: the exception that leaves it, NULL if none.
\* `await payment_manager.get_balance(user_id)` stands before the try block;
\* an exception of `self._bot.send_message` is caught and logged.
notify_user(fault) == IF fault = "get_balance" THEN "Exception" ELSE NULL

\* Fault: every log is handed to confirm_order_by_address.
SkipsLog_Never(processed, hot_addresses, log) == FALSE

\* The `continue` conditions of the loop over the logs: the hash was
\* processed by this process, the recipient is no deposit address, or the
\* decoded amount is not positive (_parse_log_amount gives 0.0 for data it
\* cannot decode).
SkipsLog(processed, hot_addresses, log) ==
    \/ log.tx_hash \in processed
    \/ Lower(log.to) \notin hot_addresses
    \/ log.amount <= 0

\* The body of the `for log in logs` loop of _check_new_transfers for one
\* log, up to `if confirmed:`: the outcomes it may have.
ProcessLog(db, processed, hot_addresses, log) ==
    IF SkipsLog(processed, hot_addresses, log)
    THEN {[db |-> db, processed |-> processed, called |-> FALSE,
           confirmed |-> FALSE]}
    ELSE LET c == [IdleTask EXCEPT !.op = "confirm_order_by_address",
                                   !.pc = "check_tx_hash", !.address = Lower(log.to),
                                   !.amount = log.amount, !.tx_hash = log.tx_hash,
                                   !.from_address = log.from]
         IN  {[db |-> x.db,
               processed |-> IF x.t.ret.kind = "order"
                             THEN processed \cup {log.tx_hash} ELSE processed,
               called |-> TRUE,
               confirmed |-> x.t.ret.kind = "order"]
              : x \in Run(db, c)}

\* The branch `if confirmed:` for the log at position i of the batch, after
\* the outcome x of ProcessLog: _notify_user, and then
\* asyncio.create_task(self._sweep_to_cold(to_addr_lower, amount, tx_hash)).
\* An exception that leaves _notify_user leaves the loop.
AfterLog(s, x, i, log, fault) ==
    LET exc == IF x.confirmed THEN notify_user(fault) ELSE NULL
    IN  [db |-> x.db,
         processed |-> x.processed,
         created |-> IF x.confirmed /\ exc = NULL
                     THEN s.created \cup {[address |-> Lower(log.to),
                                           amount |-> log.amount,
                                           tx_hash |-> log.tx_hash]}
                     ELSE s.created,
         scan |-> [s.scan EXCEPT
                     !.handled = IF exc = NULL THEN i ELSE @,
                     !.called = IF x.called THEN @ \cup {i} ELSE @,
                     !.confirmed = IF x.confirmed THEN @ \cup {i} ELSE @,
                     !.notify_failed = IF x.confirmed /\ fault = "send_message"
                                       THEN @ \cup {i} ELSE @,
                     !.sweep_created = IF x.confirmed /\ exc = NULL
                                       THEN @ \cup {i} ELSE @,
                     !.raised = exc]]

\* The loop `for log in logs` of _check_new_transfers from the state s = [db,
\* processed, created, scan]: the states it may end in.
RECURSIVE ScanLogs(_, _, _, _)
ScanLogs(s, hot_addresses, logs, fault) ==
    IF s.scan.handled = Len(logs) \/ s.scan.raised # NULL
    THEN {s}
    ELSE LET i == s.scan.handled + 1
         IN  UNION {ScanLogs(AfterLog(s, x, i, logs[i], fault), hot_addresses,
                             logs, fault)
                    : x \in ProcessLog(s.db, s.processed, hot_addresses, logs[i])}

\* What eth_getLogs may answer: nothing (also when the call fails) or one
\* log; nothing or two deposits of the smaller amount.
SingleLogBatches == {<< >>} \cup {<<l>> : l \in TransferLogs}
PairBatches ==
    {<< >>}
    \cup {<<k, l>> : k, l \in {t \in TransferLogs : /\ t.amount > 0
                                                  /\ \A a \in Amounts : t.amount <= a}}

\* ChainMonitor._check_new_transfers for a reported height: the outcomes [db,
\* monitor, created, scan, fault] over the batches and failures given.
\* Nothing happens when the height is not above last_block; the cursor jumps
\* to the height when there is no deposit address; else the logs of
\* last_block + 1 .. min(height, last_block + LOG_WINDOW) are queried,
\* last_block becomes the upper bound, and the logs returned are processed.
\* (The cut of _processed_hashes at 10000 entries is out of the model's reach.)
check_new_transfers(current_block, batches, faults) ==
    LET fresh == [NoScan EXCEPT !.after_restart = scan.after_restart]
    IN  IF current_block <= monitor.last_block
        THEN {[db |-> Store, monitor |-> monitor, created |-> event_loop.created,
               scan |-> fresh, fault |-> f] : f \in faults}
        ELSE IF get_all_addresses(user_wallets) = {}
        THEN {[db |-> Store,
               monitor |-> [monitor EXCEPT !.last_block = current_block],
               created |-> event_loop.created, scan |-> fresh, fault |-> f]
              : f \in faults}
        ELSE LET from_block == monitor.last_block + 1
                 to_block == Min(current_block, from_block + LOG_WINDOW - 1)
                 db == [Store EXCEPT !.address_to_user = SyncCache(@, user_wallets)]
                 After(logs, f) ==
                     ScanLogs([db |-> db, processed |-> monitor.processed_hashes,
                               created |-> event_loop.created,
                               scan |-> [fresh EXCEPT !.logs = logs]],
                              get_all_addresses(user_wallets), logs, f)
             IN  UNION {{[db |-> s.db,
                          monitor |->
                             [monitor EXCEPT
                                !.last_block = to_block,
                                !.from_block = from_block,
                                !.to_block = to_block,
                                !.first_from = IF @ = -1 THEN from_block ELSE @,
                                !.processed_hashes = s.processed],
                          created |-> s.created, scan |-> s.scan, fault |-> b[2]]
                         : s \in After(b[1], b[2])}
                        : b \in batches \X faults}

\* The chain grows by a block.
Mine ==
    /\ block_number < MaxBlock
    /\ block_number' = block_number + 1
    /\ UNCHANGED <<mnemonic, user_wallets, recharge_orders, user_balances,
                   spend_records, daily_usage, address_to_user, credit_log,
                   quota_log, monitor, event_loop, scan, chain_txs, now, tasks,
                   last, ncalls>>

\* Fault: start() goes on when the monitor is running.
StartSkips_NoSeedOnly(seed, running) == seed = NoSeed

\* ChainMonitor.start returns at once: `if not HD_MNEMONIC` or `if self._running`.
StartSkips(seed, running) == seed = NoSeed \/ running

\* ChainMonitor.start past its two returns, and the first lines of the
\* _poll_loop task it creates: the cache is loaded, the monitor runs, and
\* last_block is the reported height minus the lookback when the reported
\* height is positive, else the reported height.
StartPollLoop(head) ==
    /\ monitor' = [monitor EXCEPT
                     !.running = TRUE,
                     !.last_block = IF head > 0 THEN Max(0, head - LOOKBACK)
                                    ELSE head,
                     !.start_head = block_number]
    /\ event_loop' = [event_loop EXCEPT !.poll_tasks = @ + 1, !.poll_pc = "check"]
    /\ address_to_user' = load_cache(address_to_user, user_wallets)

\* The start() of post_init in a process that has a seed.
PollLoopStart ==
    /\ ~StartSkips(mnemonic, monitor.running)
    /\ \E head \in BlockNumberAnswers : StartPollLoop(head)
    /\ UNCHANGED <<mnemonic, user_wallets, recharge_orders, user_balances,
                   spend_records, daily_usage, credit_log, quota_log,
                   block_number, scan, chain_txs, now, tasks, last, ncalls>>

\* ChainMonitor._check_new_transfers, one scan of a running monitor with at
\* most one log in the answer and no failure.
CheckNewTransfers ==
    /\ monitor.running
    /\ \E current_block \in BlockNumberAnswers :
         \E x \in check_new_transfers(current_block, SingleLogBatches, {"none"}) :
            /\ Commit(x.db)
            /\ monitor' = x.monitor
            /\ event_loop' = [event_loop EXCEPT !.created = x.created]
    /\ UNCHANGED <<mnemonic, block_number, scan, chain_txs, now, tasks, last,
                   ncalls>>

NextPoll ==
    \/ GetOrCreateWallet
    \/ Mine
    \/ PollLoopStart
    \/ CheckNewTransfers
SpecPoll == Init /\ [][NextPoll]_vars

\* Recharge handlers, the poller's confirmations and the order expiry on one
\* store: the handlers run in their own coroutines, next to the poll loop.
BeginRecharge == \E p \in Tasks : \E c \in RechargeCalls : Begin(p, c)
StepOrders == \E p \in Tasks : TaskStep(p)
NextOrders ==
    \/ BeginRecharge
    \/ BeginConfirm
    \/ StepOrders
    \/ ExpireOldOrders
    \/ Tick
SpecOrders == Init /\ [][NextOrders]_vars

(***************************************************************************)
(* The monitor's life: start and stop (main.py post_init, post_shutdown),  *)
(* the iterations of the poll loop task, and the restart of the process.   *)
(***************************************************************************)
\* Fault: the loop's handler lets the exception through.
PollLoopCatches_Nothing(exc) == FALSE

\* `except Exception as e:` around the body of the loop in _poll_loop
PollLoopCatches(exc) == exc = "Exception"

\* One iteration of `while self._running:` up to the sleep, for the answers
\* and failures given: inside the try, _check_new_transfers and then
\* expire_old_orders; an exception of either ends the body, is caught and
\* logged, and the task goes on to sleep. An exception that is not caught
\* ends the task.
PollCycleOf(batches, faults) ==
    /\ monitor.running
    /\ event_loop.poll_pc = "check"
    /\ \E current_block \in BlockNumberAnswers :
         \E x \in check_new_transfers(current_block, batches, faults) :
            LET exc == IF x.scan.raised # NULL THEN x.scan.raised
                       ELSE IF x.fault = "expire_old_orders" THEN "Exception"
                       ELSE NULL
                caught == exc = NULL \/ PollLoopCatches(exc)
            IN  /\ Commit(IF exc = NULL
                          THEN [x.db EXCEPT !.recharge_orders =
                                               expire_old_orders(@, now)]
                          ELSE x.db)
                /\ monitor' = x.monitor
                /\ scan' = [x.scan EXCEPT !.raised = exc]
                /\ event_loop' =
                     [event_loop EXCEPT
                        !.created = x.created,
                        !.poll_pc = IF caught THEN "sleep" ELSE "dead",
                        !.poll_tasks = IF caught THEN @ ELSE @ - 1]
    /\ UNCHANGED <<mnemonic, block_number, chain_txs, now, tasks, last, ncalls>>

\* An iteration whose eth_getLogs answers with at most one log, nothing failing.
PollCycle == PollCycleOf(SingleLogBatches, {"none"})

\* An iteration whose eth_getLogs answers with nothing or with two deposits,
\* with the failures.
PollBatch == PollCycleOf(PairBatches, Faults)

\* `await asyncio.sleep(CHAIN_POLL_INTERVAL)` returns and the loop condition
\* is read: the next iteration, or the end of the task.
PollSleep ==
    /\ event_loop.poll_pc = "sleep"
    /\ event_loop' =
         [event_loop EXCEPT
            !.poll_pc = IF monitor.running THEN "check" ELSE "none",
            !.poll_tasks = IF monitor.running THEN @ ELSE @ - 1]
    /\ UNCHANGED <<mnemonic, user_wallets, recharge_orders, user_balances,
                   spend_records, daily_usage, address_to_user, credit_log,
                   quota_log, block_number, monitor, scan, chain_txs, now,
                   tasks, last, ncalls>>

\* await chain_monitor.start()
Start ==
    /\ ncalls < MaxCalls
    /\ ncalls' = ncalls + 1
    /\ last' = [IdleTask EXCEPT
                   !.op = "start",
                   !.ret = [NoRet EXCEPT !.kind =
                              IF StartSkips(mnemonic, monitor.running)
                              THEN "returned early" ELSE "task created"]]
    /\ IF StartSkips(mnemonic, monitor.running)
       THEN UNCHANGED <<monitor, event_loop, address_to_user>>
       ELSE \E head \in BlockNumberAnswers : StartPollLoop(head)
    /\ UNCHANGED <<mnemonic, user_wallets, recharge_orders, user_balances,
                   spend_records, daily_usage, credit_log, quota_log,
                   block_number, scan, chain_txs, now, tasks>>

\* await chain_monitor.stop(): _running is cleared, and the task in
\* self._task, if it has not ended, is cancelled and awaited.
Stop ==
    /\ ncalls < MaxCalls
    /\ ncalls' = ncalls + 1
    /\ last' = [IdleTask EXCEPT !.op = "stop"]
    /\ monitor' = [monitor EXCEPT !.running = FALSE]
    /\ event_loop' = [event_loop EXCEPT
                        !.poll_pc = "none",
                        !.poll_tasks = IF @ > 0 THEN @ - 1 ELSE @]
    /\ UNCHANGED <<mnemonic, user_wallets, recharge_orders, user_balances,
                   spend_records, daily_usage, address_to_user, credit_log,
                   quota_log, block_number, scan, chain_txs, now, tasks>>

\* The process ends and a new one is started on the same database: a new
\* ChainMonitor (the module's `chain_monitor = ChainMonitor()`), an empty
\* address cache, no task.
Restart ==
    /\ monitor.running
    /\ monitor' = NewMonitor
    /\ event_loop' = NoTasks
    /\ address_to_user' = [a \in {} |-> NULL]
    /\ tasks' = [p \in Tasks |-> IdleTask]
    /\ scan' = [NoScan EXCEPT !.after_restart = TRUE]
    /\ UNCHANGED <<mnemonic, user_wallets, recharge_orders, user_balances,
                   spend_records, daily_usage, credit_log, quota_log,
                   block_number, chain_txs, now, last, ncalls>>

\* The program starts on a chain that has its blocks already.
InitGrown ==
    /\ mnemonic \in Mnemonics
    /\ block_number = MaxBlock
    /\ Constructed

\* The poller of a process that may be restarted.
NextScan ==
    \/ GetOrCreateWallet
    \/ PollLoopStart
    \/ PollCycle
    \/ PollSleep
    \/ Restart
SpecScan == InitGrown /\ [][NextScan]_vars

\* A process configured with or without a master seed.
InitLife ==
    /\ mnemonic \in Mnemonics \cup {NoSeed}
    /\ block_number = MaxBlock
    /\ Constructed

\* handlers/payment.py: the recharge handlers reach get_or_create_wallet only
\* past `if not HD_MNEMONIC: ... return`.
SeededWallet == mnemonic # NoSeed /\ GetOrCreateWallet

\* start and stop called in any order, around the iterations of the loop.
NextLife ==
    \/ SeededWallet
    \/ Start
    \/ Stop
    \/ PollCycle
    \/ PollSleep
SpecLife == InitLife /\ [][NextLife]_vars

\* The poller reading two deposits at a time, with failures.
NextBatch ==
    \/ GetOrCreateWallet
    \/ PollLoopStart
    \/ PollBatch
    \/ PollSleep
SpecBatch == InitGrown /\ [][NextBatch]_vars

(***************************************************************************)
(* Sweep tasks next to the poll loop. Every transaction a hot wallet has   *)
(* had accepted counts as mined at once: eth_getTransactionCount(address,  *)
(* "latest") answers with their number, and the node accepts a transaction *)
(* only if no accepted transaction of the sender has its nonce.            *)
(***************************************************************************)
\* eth_getTransactionCount(address, "latest")
TransactionCount(txs, address) == Cardinality({x \in txs : x.from = address})

\* What the endpoints answer to the RPC calls the task t makes at its next
\* step: nothing (-1, NULL: the call returned None) or the chain's answer.
RpcAnswers(t) ==
    CASE t.pc = "rpc_nonce_gas_price" ->
           {[t EXCEPT !.nonce = n, !.gas_price = g]
            : n \in {-1, TransactionCount(chain_txs, t.address)}, g \in {-1, 1}}
      [] t.pc = "rpc_balance" ->
           {[t EXCEPT !.bnb_balance = b] : b \in {0, GAS_LIMIT}}
      [] t.pc = "send_raw_transaction" ->
           {[t EXCEPT !.sweep_tx_hash = h]
            : h \in {NULL} \cup
                    (IF [from |-> t.address, nonce |-> t.nonce] \in chain_txs
                     THEN {} ELSE SweepHashes)}
      [] OTHER -> {t}

\* A sweep task created by the poll loop starts to run; config.BSC_WALLET_ADDRESS
\* is set or not.
SweepStart ==
    \E p \in Tasks : \E d \in event_loop.created : \E cold \in BOOLEAN :
        /\ tasks[p].pc = "done"
        /\ tasks' = [tasks EXCEPT ![p] =
                       [IdleTask EXCEPT !.op = "sweep_to_cold",
                                        !.pc = "lookup_hot_user",
                                        !.address = d.address, !.amount = d.amount,
                                        !.tx_hash = d.tx_hash, !.cold_wallet = cold]]
        /\ event_loop' = [event_loop EXCEPT !.created = @ \ {d}]
        /\ UNCHANGED <<mnemonic, user_wallets, recharge_orders, user_balances,
                       spend_records, daily_usage, address_to_user, credit_log,
                       quota_log, block_number, monitor, scan, chain_txs, now,
                       last, ncalls>>

\* A sweep task runs to its next await: a store operation, or RPC calls and
\* what follows them. A broadcast that returns a hash was accepted.
SweepStep ==
    \E p \in Tasks :
        /\ tasks[p].op = "sweep_to_cold"
        /\ tasks[p].pc # "done"
        /\ \E t \in RpcAnswers(tasks[p]) : \E x \in Step(Store, t) :
              /\ Commit(x.db)
              /\ tasks' = [tasks EXCEPT ![p] = x.t]
              /\ chain_txs' = IF t.pc = "send_raw_transaction" /\ t.sweep_tx_hash # NULL
                              THEN chain_txs \cup {[from |-> t.address, nonce |-> t.nonce]}
                              ELSE chain_txs
        /\ UNCHANGED <<mnemonic, block_number, monitor, event_loop, scan, now,
                       last, ncalls>>

\* An iteration whose eth_getLogs answers with nothing or with two deposits,
\* nothing failing.
PollPair == PollCycleOf(PairBatches, {"none"})

\* A poll cycle and the sweep tasks it creates.
NextSweep ==
    \/ GetOrCreateWallet
    \/ PollLoopStart
    \/ PollPair
    \/ SweepStart
    \/ SweepStep
SpecSweep == InitGrown /\ [][NextSweep]_vars

\* The poller reading two deposits at a time while every call succeeds.
NextPairs ==
    \/ GetOrCreateWallet
    \/ PollLoopStart
    \/ PollPair
    \/ PollSleep
SpecPairs == InitGrown /\ [][NextPairs]_vars

\* What eth_getLogs may answer: nothing, or one deposit of the smaller amount.
DepositBatches ==
    {<< >>}
    \cup {<<l>> : l \in {t \in TransferLogs : /\ t.amount > 0
                                             /\ \A a \in Amounts : t.amount <= a}}

\* An iteration whose eth_getLogs answers with nothing or with one deposit,
\* with the failures that raise.
PollFaulty == PollCycleOf(DepositBatches, Faults \ {"send_message"})

\* The monitor started by main.py while wallets are created, the poll loop
\* meeting failures. The event loop runs the poll loop task when it
\* can run: every await of an iteration returns (an RPC call after one
\* attempt per endpoint, each with a timeout; a store operation; the sleep).
PollLoopStep == PollFaulty \/ PollSleep
NextLive ==
    \/ GetOrCreateWallet
    \/ Start
    \/ PollFaulty
    \/ PollSleep
SpecLive == InitGrown /\ [][NextLive]_vars /\ WF_vars(PollLoopStep)

(***************************************************************************)
(* ChainMonitor._rpc_call. The poll loop and the sweep tasks are tasks of  *)
(* one event loop and share self._rpc_index. A caller is suspended while   *)
(* its request is out; the URL is read when the request is made.           *)
(***************************************************************************)
Endpoints == 0 .. (NUM_RPC_ENDPOINTS - 1)

\* What comes back from client.post(...) / resp.json(): a result, a body
\* with "error", or an exception (timeout, connection error).
Responses == {"result", "error", "exception"}

\* self._rpc_url: BSC_RPC_ENDPOINTS[self._rpc_index % len(BSC_RPC_ENDPOINTS)]
rpc_url(rpc_index) == rpc_index % NUM_RPC_ENDPOINTS

\* self._rotate_rpc()
rotate_rpc(rpc_index) == (rpc_index + 1) % NUM_RPC_ENDPOINTS

\* A task calls _rpc_call: the first pass of `for attempt in range(...)` up
\* to the await of the request.
RpcCall ==
    \E p \in Tasks :
        /\ tasks[p].pc = "done"
        /\ ncalls < MaxCalls
        /\ ncalls' = ncalls + 1
        /\ tasks' = [tasks EXCEPT ![p] =
                       [IdleTask EXCEPT !.op = "rpc_call", !.pc = "post",
                                        !.attempt = 0,
                                        !.url = rpc_url(monitor.rpc_index),
                                        !.tried = <<rpc_url(monitor.rpc_index)>>]]
        /\ UNCHANGED <<mnemonic, user_wallets, recharge_orders, user_balances,
                       spend_records, daily_usage, address_to_user, credit_log,
                       quota_log, block_number, monitor, event_loop, scan,
                       chain_txs, now, last>>

\* The request of a task comes back: a body without "error" is returned;
\* else the index is rotated and the next pass makes its request to the URL
\* the index then gives, or the loop is over and None is returned.
RpcResponse ==
    \E p \in Tasks : \E r \in Responses :
        /\ tasks[p].op = "rpc_call"
        /\ tasks[p].pc = "post"
        /\ IF r = "result"
           THEN /\ tasks' = [tasks EXCEPT ![p] =
                               Return(@, [NoRet EXCEPT !.kind = "data"])]
                /\ UNCHANGED monitor
           ELSE LET index == rotate_rpc(monitor.rpc_index)
                IN  /\ monitor' = [monitor EXCEPT !.rpc_index = index]
                    /\ tasks' = [tasks EXCEPT ![p] =
                         IF @.attempt + 1 < NUM_RPC_ENDPOINTS
                         THEN [@ EXCEPT !.attempt = @ + 1,
                                        !.url = rpc_url(index),
                                        !.tried = Append(@, rpc_url(index))]
                         ELSE Return(@, [NoRet EXCEPT !.kind = "None"])]
        /\ UNCHANGED <<mnemonic, user_wallets, recharge_orders, user_balances,
                       spend_records, daily_usage, address_to_user, credit_log,
                       quota_log, block_number, event_loop, scan, chain_txs,
                       now, last, ncalls>>

NextRpc == RpcCall \/ RpcResponse
SpecRpc == Init /\ [][NextRpc]_vars






(***************************************************************************)
(* Properties.                                                             *)
(***************************************************************************)
IsConfirm(t) == t.op = "confirm_order_by_address"
ConfirmArgs(t) == <<t.address, t.amount, t.tx_hash, t.from_address>>
Credited(tx_hash) == {i \in DOMAIN credit_log : credit_log[i].tx_hash = tx_hash}
Carrying(tx_hash) ==
    {i \in DOMAIN recharge_orders : /\ recharge_orders[i].tx_hash = tx_hash
                                    /\ recharge_orders[i].status \in {"confirmed", "swept"}}
\* A call of the sequential specification has just returned.
Returned == ncalls' = ncalls + 1

\* C1: concurrent confirmations of one transfer (same deposit address, amount
\* and tx_hash) credit the user's balance for that tx_hash only once: the
\* credit log never holds the same credit of an on-chain hash twice.
C1_TransferCreditedOnce ==
    \A i, j \in DOMAIN credit_log :
        (credit_log[i].tx_hash \in TxHashes /\ credit_log[i] = credit_log[j]) => i = j

\* C2: a confirm_order_by_address call that directly follows a call with the
\* same (deposit_address, amount, tx_hash, from_address) returns None and
\* leaves balances, orders and the credit log unchanged, and the hash is
\* credited at most once.
C2_SecondConfirmIsNoop ==
    [][(Returned /\ IsConfirm(last) /\ IsConfirm(last')
          /\ ConfirmArgs(last') = ConfirmArgs(last))
       => /\ last'.ret.kind = "None"
          /\ user_balances' = user_balances
          /\ recharge_orders' = recharge_orders
          /\ credit_log' = credit_log
          /\ Cardinality(Credited(last'.tx_hash)) <= 1]_vars

\* A confirmation was credited and the same confirmation, made again, returned None.
C2_Witness ==
    /\ IsConfirm(last) /\ last.ret.kind = "None"
    /\ \E i \in DOMAIN recharge_orders :
          /\ recharge_orders[i].status = "confirmed"
          /\ recharge_orders[i].tx_hash = last.tx_hash
          /\ recharge_orders[i].amount = last.amount
          /\ recharge_orders[i].from_address = last.from_address
          /\ Lower(recharge_orders[i].deposit_address) = last.address
    /\ Cardinality(Credited(last.tx_hash)) = 1

C4_BalanceNeverNegative ==
    \A u \in DOMAIN user_balances : user_balances[u].balance >= 0

\* C5: in every state reached by confirm_order_by_address, create_recharge_order,
\* expire_old_orders and mark_order_swept calls, a tx_hash is carried by at
\* most one order whose status is confirmed or swept.
C5_TxHashOnOneOrder ==
    \A h \in TxHashes : Cardinality(Carrying(h)) <= 1

\* A confirmed deposit was swept, and a confirmed order carries the other hash.
C5_Witness ==
    /\ \E i \in DOMAIN recharge_orders :
          /\ recharge_orders[i].status = "swept"
          /\ recharge_orders[i].tx_hash \in TxHashes
    /\ last.op = "sweep_to_cold"

\* C6: of concurrent get_or_create_wallet calls with the same new user_id,
\* every caller returns the one row created and no caller fails. (Stated for
\* calls made while no other user has a wallet.)
C6_SameUserCallersAgree ==
    \A p \in Tasks :
        (/\ tasks[p].op = "get_or_create_wallet" /\ tasks[p].pc = "done"
         /\ \A w \in user_wallets : w.user_id = tasks[p].user_id)
        => /\ tasks[p].ret.kind = "wallet"
           /\ \E w \in user_wallets : tasks[p].ret = WalletRet(w)

\* C7: from an empty user_wallets table, successive non-concurrent
\* get_or_create_wallet calls for distinct new users all succeed, and the
\* indices assigned are 0, 1, 2, ... in call order.
C7_SequentialIndices ==
    /\ last.op = "get_or_create_wallet" => last.ret.kind = "wallet"
    /\ {w.wallet_index : w \in user_wallets} = 0 .. (Cardinality(user_wallets) - 1)

\* C8: under any interleaving of get_or_create_wallet calls no two rows of
\* user_wallets share a user_id, a wallet_index or an address; a row is never
\* changed or removed; and a call made for a user who has a row returns that
\* row and writes nothing.
C8_RowsUnique ==
    \A a, b \in user_wallets :
        (a.user_id = b.user_id \/ a.wallet_index = b.wallet_index
           \/ a.address = b.address) => a = b

C8_LaterCallReturnsRow ==
    \A p \in Tasks : \A w \in user_wallets :
        (/\ tasks[p].op = "get_or_create_wallet" /\ tasks[p].pc = "select_existing"
         /\ tasks[p].user_id = w.user_id /\ tasks'[p] # tasks[p])
        => /\ tasks'[p].pc = "done"
           /\ tasks'[p].ret = WalletRet(w)
           /\ user_wallets' = user_wallets
           /\ address_to_user' = address_to_user

C8_WalletRowsUniqueAndStable ==
    /\ [](C8_RowsUnique)
    /\ [][user_wallets \subseteq user_wallets' /\ C8_LaterCallReturnsRow]_vars

\* Two callers hold the same wallet: one created it, the other found it.
C8_Witness ==
    /\ user_wallets # {}
    /\ \A p \in Tasks : /\ tasks[p].op = "get_or_create_wallet"
                        /\ tasks[p].pc = "done"
                        /\ tasks[p].ret.kind = "wallet"
    /\ \A p, q \in Tasks : tasks[p].ret = tasks[q].ret

\* C9: when the user holds a pending order created with the address that
\* get_or_create_wallet returned, and a transfer to that address is detected
\* (the poller passes the lower-cased address), confirm_order_by_address
\* turns that pending order into a confirmed one carrying the transfer's
\* amount, tx_hash and from_address, and inserts no other order.
C9_PendingOrderIsConfirmed ==
    [][(/\ Returned /\ IsConfirm(last')
        /\ ~TxHashUsed(recharge_orders, last'.tx_hash)
        /\ \E i \in DOMAIN recharge_orders :
              /\ recharge_orders[i].status = "pending"
              /\ Lower(recharge_orders[i].deposit_address) = last'.address)
       => /\ Len(recharge_orders') = Len(recharge_orders)
          /\ \E i \in DOMAIN recharge_orders :
                /\ recharge_orders[i].status = "pending"
                /\ Lower(recharge_orders[i].deposit_address) = last'.address
                /\ recharge_orders'[i].status = "confirmed"
                /\ recharge_orders'[i].amount = last'.amount
                /\ recharge_orders'[i].tx_hash = last'.tx_hash
                /\ recharge_orders'[i].from_address = last'.from_address]_vars

\* C10: a successful confirm_order_by_address(address, amount, tx_hash) adds
\* exactly amount to balance and total_recharged of the owner of the deposit
\* address, leaves that user's total_spent and every other user's balance row
\* as they were, and returns an order carrying that user's id.
C10_ConfirmCreditsOwner ==
    [][(Returned /\ IsConfirm(last') /\ last'.ret.kind = "order")
       => \E w \in user_wallets :
             LET u == w.user_id
                 old == IF u \in DOMAIN user_balances THEN user_balances[u]
                        ELSE [balance |-> 0, total_recharged |-> 0, total_spent |-> 0]
             IN  /\ Lower(w.address) = last'.address
                 /\ last'.ret.user_id = u
                 /\ u \in DOMAIN user_balances'
                 /\ user_balances'[u].balance = old.balance + last'.amount
                 /\ user_balances'[u].total_recharged =
                        old.total_recharged + last'.amount
                 /\ user_balances'[u].total_spent = old.total_spent
                 /\ DOMAIN user_balances' = DOMAIN user_balances \cup {u}
                 /\ \A v \in DOMAIN user_balances \ {u} :
                        user_balances'[v] = user_balances[v]]_vars

\* A deposit was confirmed and credited to its user while another user holds
\* a balance row.
C10_Witness ==
    /\ IsConfirm(last) /\ last.ret.kind = "order"
    /\ last.ret.user_id \in DOMAIN user_balances
    /\ user_balances[last.ret.user_id].balance = last.amount
    /\ \E v \in DOMAIN user_balances : v # last.ret.user_id

\* C11: confirm_order_by_address for a deposit address that has no pending
\* order and belongs to no wallet returns None, inserts or changes no order
\* and credits no balance.
C11_UnknownAddressIgnored ==
    [][(/\ Returned /\ IsConfirm(last')
        /\ \A w \in user_wallets : Lower(w.address) # last'.address
        /\ \A i \in DOMAIN recharge_orders :
              ~(/\ recharge_orders[i].status = "pending"
                /\ recharge_orders[i].deposit_address = last'.address))
       => /\ last'.ret.kind = "None"
          /\ recharge_orders' = recharge_orders
          /\ user_balances' = user_balances
          /\ credit_log' = credit_log]_vars

\* A transfer with a fresh hash to an address of no wallet was reported while
\* another address has a wallet; nothing was recorded for the hash.
C11_Witness ==
    /\ IsConfirm(last) /\ last.ret.kind = "None"
    /\ user_wallets # {}
    /\ \A w \in user_wallets : Lower(w.address) # last.address
    /\ ~TxHashUsed(recharge_orders, last.tx_hash)
    /\ Credited(last.tx_hash) = {}

\* C12: in every reachable state each user has at most one order with
\* status pending, also when two create_recharge_order calls for the same
\* user interleave at store operations.
C12_OnePendingOrderPerUser ==
    \A u \in Users :
        Cardinality({i \in DOMAIN recharge_orders :
                        /\ recharge_orders[i].user_id = u
                        /\ recharge_orders[i].status = "pending"}) <= 1

\* C13: an order's status only changes pending -> confirmed, pending ->
\* expired or confirmed -> swept, and orders are never deleted, also when
\* confirm_order_by_address interleaves with create_recharge_order or
\* expire_old_orders between its lookup and its update.
C13_StatusTransitions ==
    [][/\ Len(recharge_orders') >= Len(recharge_orders)
       /\ \A i \in DOMAIN recharge_orders :
             \/ recharge_orders'[i].status = recharge_orders[i].status
             \/ <<recharge_orders[i].status, recharge_orders'[i].status>> \in
                   {<<"pending", "confirmed">>, <<"pending", "expired">>,
                    <<"confirmed", "swept">>}]_vars

\* C14: expire_old_orders sets to expired exactly the orders that are pending
\* and older than the TTL, leaves every other order and all balances as they
\* were, and leaves nothing for an immediate second call to change.
C14_ExpiresExactlyOldPending ==
    [][(Returned /\ last'.op = "expire_old_orders")
       => /\ Len(recharge_orders') = Len(recharge_orders)
          /\ \A i \in DOMAIN recharge_orders :
                IF /\ recharge_orders[i].status = "pending"
                   /\ now - recharge_orders[i].created_at > RECHARGE_ORDER_EXPIRE
                THEN recharge_orders'[i] =
                        [recharge_orders[i] EXCEPT !.status = "expired"]
                ELSE recharge_orders'[i] = recharge_orders[i]
          /\ \A i \in DOMAIN recharge_orders' :
                ~(/\ recharge_orders'[i].status = "pending"
                  /\ now - recharge_orders'[i].created_at > RECHARGE_ORDER_EXPIRE)
          /\ user_balances' = user_balances]_vars

\* expire_old_orders ran and an order older than the TTL is expired.
C14_Witness ==
    /\ last.op = "expire_old_orders"
    /\ \E i \in DOMAIN recharge_orders :
          /\ recharge_orders[i].status = "expired"
          /\ now - recharge_orders[i].created_at > RECHARGE_ORDER_EXPIRE

\* The check_and_deduct calls logged before line k for the same user,
\* feature and day.
EarlierUses(k) ==
    {j \in 1 .. (k - 1) : /\ quota_log[j].user_id = quota_log[k].user_id
                          /\ quota_log[j].feature = quota_log[k].feature
                          /\ quota_log[j].today = quota_log[k].today}

\* C15: for a feature with daily free limit N, of the check_and_deduct calls
\* one user makes in sequence on one day the first N are free and every later
\* one takes the paid path (paid, or denied for lack of balance); with N = 0
\* every call takes the paid path. A free call returns is_free and debits
\* nothing; a call on the paid path never returns is_free.
C15_LogOrder ==
    \A k \in DOMAIN quota_log :
        IF Cardinality(EarlierUses(k)) < FEATURE_CONFIG(quota_log[k].feature).free_limit
        THEN quota_log[k].kind = "free"
        ELSE quota_log[k].kind \in {"paid", "denied"}

C15_LogMatchesResult ==
    (Returned /\ last'.op = "check_and_deduct")
    => /\ Len(quota_log') = Len(quota_log) + 1
       /\ LET e == quota_log'[Len(quota_log')]
          IN  /\ e.user_id = last'.user_id /\ e.feature = last'.feature
              /\ e.today = Today(now)
              /\ e.kind = "free" <=> (last'.ret.kind = "allowed" /\ last'.ret.is_free)
              /\ e.kind = "paid" <=> (last'.ret.kind = "allowed" /\ ~last'.ret.is_free)
              /\ e.kind = "denied" <=> last'.ret.kind = "denied"
              /\ e.kind = "free" => user_balances' = user_balances
              /\ e.kind = "paid" => user_balances' # user_balances

C15_FirstNFreeThenPaid ==
    /\ [](C15_LogOrder)
    /\ [][C15_LogMatchesResult]_vars

\* A user used up the free limit of a feature and the next use on the same
\* day was paid for.
C15_Witness ==
    \E k \in DOMAIN quota_log :
        /\ FEATURE_CONFIG(quota_log[k].feature).free_limit > 0
        /\ Cardinality(EarlierUses(k)) = FEATURE_CONFIG(quota_log[k].feature).free_limit
        /\ quota_log[k].kind = "paid"
        /\ last.op = "check_and_deduct" /\ ~last.ret.is_free

\* The call that has just returned was a check_and_deduct that found the
\* day's free uses of its feature used up (or the feature has none).
OnPaidPath(t) ==
    LET config == FEATURE_CONFIG(t.feature)
    IN  /\ t.op = "check_and_deduct"
        /\ \/ config.free_limit = 0
           \/ get_daily_usage(daily_usage, t.user_id, Today(now), config.usage_field)
                 >= config.free_limit

\* C16: when the balance is below the amount, deduct_balance returns False
\* and check_and_deduct (on the paid path) returns allowed = false, and
\* balances, spend records and daily usage counters are left unchanged.
C16_InsufficientBalanceDenied ==
    [][(/\ Returned
        /\ last'.op = "deduct_balance" \/ OnPaidPath(last')
        /\ \/ last'.user_id \notin DOMAIN user_balances
           \/ user_balances[last'.user_id].balance < last'.amount)
       => /\ last'.ret.kind = IF last'.op = "deduct_balance" THEN "False" ELSE "denied"
          /\ user_balances' = user_balances
          /\ spend_records' = spend_records
          /\ daily_usage' = daily_usage]_vars

\* A user with a balance below the price, and with the free uses of the day
\* used up, was denied.
C16_Witness ==
    /\ last.op = "check_and_deduct" /\ last.ret.kind = "denied"
    /\ FEATURE_CONFIG(last.feature).free_limit > 0
    /\ last.user_id \in DOMAIN user_balances
    /\ user_balances[last.user_id].balance > 0
    /\ user_balances[last.user_id].balance < last.amount

\* C17: a check_and_deduct that allows a paid use takes exactly the unit
\* price from the balance, adds it to total_spent and appends exactly one
\* spend record (user, feature, price); one that allows a free use leaves
\* balances and spend records unchanged and adds one to the day's counter of
\* the feature only.
C17_PaidUseDebitsPrice ==
    [][(Returned /\ last'.op = "check_and_deduct" /\ last'.ret.kind = "allowed")
       => LET u == last'.user_id
              config == FEATURE_CONFIG(last'.feature)
              day == <<u, Today(now)>>
          IN  IF last'.ret.is_free
              THEN /\ user_balances' = user_balances
                   /\ spend_records' = spend_records
                   /\ daily_usage' = increment_usage(daily_usage, u, Today(now),
                                                     config.usage_field)
                   /\ get_daily_usage(daily_usage', u, Today(now), config.usage_field)
                        = get_daily_usage(daily_usage, u, Today(now),
                                          config.usage_field) + 1
                   /\ \A d \in DOMAIN daily_usage \ {day} :
                          daily_usage'[d] = daily_usage[d]
              ELSE /\ u \in DOMAIN user_balances
                   /\ user_balances' =
                         [user_balances EXCEPT
                            ![u] = [balance |-> @.balance - config.price,
                                    total_recharged |-> @.total_recharged,
                                    total_spent |-> @.total_spent + config.price]]
                   /\ spend_records' =
                         Append(spend_records, [user_id |-> u, feature |-> last'.feature,
                                                amount |-> config.price])]_vars

\* A paid use was allowed to a user who keeps a positive balance after it.
C17_Witness ==
    /\ last.op = "check_and_deduct" /\ last.ret.kind = "allowed" /\ ~last.ret.is_free
    /\ Len(spend_records) = 1
    /\ spend_records[1].amount = FEATURE_CONFIG(last.feature).price
    /\ user_balances[last.user_id].balance > 0

\* What a sweep needs before it marks an order: the cold wallet configured,
\* nonce and gas price fetched, native balance covering the gas, and the
\* broadcast answered with a transaction hash.
SweepBroadcastOk(t) ==
    /\ t.cold_wallet /\ t.nonce # -1 /\ t.gas_price # -1
    /\ t.bnb_balance >= GAS_LIMIT * t.gas_price
    /\ t.sweep_tx_hash # NULL

\* C18: a sweep changes an order only after its broadcast returned a
\* transaction hash, and then sets a confirmed order to swept with that hash;
\* with the cold wallet unset, nonce or gas price missing, the native balance
\* below gas_limit * gas_price or the broadcast rejected, it returns with no
\* order changed (before the broadcast in the first three cases); in every
\* case balances are unchanged.
C18_SweptOnlyAfterBroadcast ==
    [][(Returned /\ last'.op = "sweep_to_cold")
       => /\ user_balances' = user_balances
          /\ credit_log' = credit_log
          /\ Len(recharge_orders') = Len(recharge_orders)
          /\ ~SweepBroadcastOk(last')
               => /\ recharge_orders' = recharge_orders
                  /\ last'.ret.kind \in {"no_cold_wallet", "no_user", "no_wallet",
                                         "rpc_failed", "low_gas", "broadcast_rejected"}
                  /\ last'.ret.kind = "broadcast_rejected"
                       => (last'.sweep_tx_hash = NULL
                           /\ last'.bnb_balance >= GAS_LIMIT * last'.gas_price)
          /\ \A i \in DOMAIN recharge_orders :
                recharge_orders'[i] # recharge_orders[i]
                => /\ SweepBroadcastOk(last')
                   /\ recharge_orders[i].status = "confirmed"
                   /\ recharge_orders'[i] =
                         [recharge_orders[i] EXCEPT
                            !.status = "swept",
                            !.sweep_tx_hash = last'.sweep_tx_hash]]_vars

\* A sweep of a confirmed deposit was skipped because the hot address holds
\* too little native balance for the gas; the order is still confirmed.
C18_Witness ==
    /\ last.op = "sweep_to_cold" /\ last.ret.kind = "low_gas"
    /\ \E i \in DOMAIN recharge_orders :
          /\ recharge_orders[i].status = "confirmed"
          /\ recharge_orders[i].deposit_address = last.address
          /\ recharge_orders[i].tx_hash = last.tx_hash
    /\ \E u \in DOMAIN user_balances : user_balances[u].balance > 0

\* A step of the running monitor in which eth_getLogs was queried: the
\* recorded range moved.
Queried == monitor.running /\ monitor'.to_block # monitor.to_block

\* C19: once the poll loop runs, last_block never decreases; a scan that
\* finds the head ahead of last_block while a deposit address exists queries
\* exactly last_block + 1 .. min(head, last_block + window) and sets
\* last_block to that upper bound whatever logs come back, so a queried range
\* starts right after the previous one; the cursor moves without a query only
\* while there is no deposit address; and while the head is not ahead of
\* last_block nothing changes.
C19_CursorStep ==
    /\ monitor.running => monitor'.last_block >= monitor.last_block
    /\ Queried
         => /\ block_number > monitor.last_block /\ user_wallets # {}
            /\ monitor'.from_block = monitor.last_block + 1
            /\ monitor'.to_block =
                  IF block_number <= monitor.last_block + LOG_WINDOW
                  THEN block_number ELSE monitor.last_block + LOG_WINDOW
            /\ monitor'.last_block = monitor'.to_block
            /\ monitor.to_block # -1 => monitor'.from_block = monitor.to_block + 1
    /\ (monitor.running /\ monitor'.last_block # monitor.last_block /\ ~Queried)
         => (user_wallets = {} /\ monitor'.last_block = block_number)
    /\ (monitor.running /\ block_number <= monitor.last_block)
         => /\ monitor' = monitor
            /\ recharge_orders' = recharge_orders
            /\ user_balances' = user_balances

C19_CursorAdvancesByQueriedRange == [][C19_CursorStep]_vars

\* Two ranges were queried and the second was cut by the window: the head is
\* beyond its upper bound.
C19_Witness ==
    /\ monitor.first_from # -1
    /\ monitor.from_block > monitor.first_from
    /\ monitor.to_block = monitor.from_block + LOG_WINDOW - 1
    /\ monitor.to_block < block_number
    /\ monitor.last_block = monitor.to_block

\* C20: the first log query of a started poll loop never begins earlier than
\* lookback - 1 blocks before the chain head at startup (last_block being
\* set to that head minus the lookback, not below 0, before the first scan),
\* also when the block-height call made at startup fails.
C20_FirstQueryWithinLookback ==
    monitor.first_from # -1
    => monitor.first_from >=
         (IF monitor.start_head > LOOKBACK THEN monitor.start_head - LOOKBACK ELSE 0) + 1

\* A poll loop iteration has just run.
Cycled == event_loop.poll_pc = "check" /\ event_loop'.poll_pc \in {"sleep", "dead"}

\* The log at position i of the batch just read is addressed to a deposit
\* address, carries a positive amount, and its hash was not in the processed
\* set when the loop came to it.
Passes(i) ==
    LET log == scan'.logs[i]
    IN  /\ \E w \in user_wallets : Lower(w.address) = Lower(log.to)
        /\ log.amount > 0
        /\ log.tx_hash \notin monitor.processed_hashes
        /\ \A j \in scan'.confirmed : j < i => scan'.logs[j].tx_hash # log.tx_hash

\* C21: in a poll cycle confirm_order_by_address is called for a log only if
\* the log's recipient, lower-cased, is a known deposit address, its amount
\* is positive and its hash is not in the in-memory processed set; a cycle
\* none of whose logs meets the three conditions changes no order, no
\* balance and credits nothing.
C21_ConfirmOnlyForDeposits ==
    [][Cycled =>
         /\ \A i \in scan'.called : Passes(i)
         /\ (\A i \in DOMAIN scan'.logs : ~Passes(i))
              => /\ recharge_orders' = recharge_orders
                 /\ user_balances' = user_balances
                 /\ credit_log' = credit_log]_vars

\* A cycle read a deposit to a known address whose hash this process had
\* processed, and did not call confirm_order_by_address for it.
C21_Witness ==
    /\ Len(scan.logs) = 1
    /\ scan.logs[1].amount > 0
    /\ scan.logs[1].tx_hash \in monitor.processed_hashes
    /\ \E w \in user_wallets : Lower(w.address) = scan.logs[1].to
    /\ scan.called = {}
    /\ scan.handled = 1

\* The log was confirmed before: an order of its recipient with its hash is
\* confirmed or swept.
ConfirmedBefore(log) ==
    \E k \in DOMAIN recharge_orders :
        /\ recharge_orders[k].tx_hash = log.tx_hash
        /\ Lower(recharge_orders[k].deposit_address) = Lower(log.to)
        /\ recharge_orders[k].status \in {"confirmed", "swept"}

\* C22: in a process started after a restart (processed set empty, cursor
\* set back by the lookback) a poll cycle that reads again the log of a
\* deposit confirmed earlier credits nothing for its hash and adds no
\* confirmed order for it: the credit-log entries and the confirmed or swept
\* orders of the hash stay the ones there were, one of each.
C22_RereadAfterRestartNotCredited ==
    [][(Cycled /\ scan'.after_restart)
       => \A h \in TxHashes :
             (\E i \in DOMAIN scan'.logs : /\ scan'.logs[i].tx_hash = h
                                           /\ ConfirmedBefore(scan'.logs[i]))
             => /\ Credited(h)' = Credited(h)
                /\ Carrying(h)' = Carrying(h)
                /\ Cardinality(Carrying(h)) = 1
                /\ Cardinality(Credited(h)) = 1
                /\ user_balances' = user_balances]_vars

\* After a restart the processed set is empty, the cycle read the log of a
\* deposit confirmed before the restart, called confirm_order_by_address
\* for it and nothing was confirmed.
C22_Witness ==
    /\ scan.after_restart
    /\ monitor.processed_hashes = {}
    /\ Len(scan.logs) = 1
    /\ ConfirmedBefore(scan.logs[1])
    /\ scan.called = {1}
    /\ scan.confirmed = {}
    /\ Cardinality(Credited(scan.logs[1].tx_hash)) = 1

\* The amounts of the confirmed orders of user u after position n.
RECURSIVE ConfirmedSince(_, _, _)
ConfirmedSince(orders, n, u) ==
    IF n >= Len(orders) THEN 0
    ELSE (IF orders[n + 1].user_id = u /\ orders[n + 1].status = "confirmed"
          THEN orders[n + 1].amount ELSE 0)
         + ConfirmedSince(orders, n + 1, u)

BalanceOf(balances, u) == IF u \in DOMAIN balances THEN balances[u].balance ELSE 0

\* C23: when the notification of a confirmed deposit cannot be sent, the
\* deposit's order is confirmed and its amount is in the owner's balance at
\* the end of the cycle, the sweep task for the deposit has been created, and
\* the loop went through every log of the batch without an exception.
C23_NotifyFailureKeepsCredit ==
    [][Cycled =>
         \A i \in scan'.notify_failed :
            /\ scan'.handled = Len(scan'.logs)
            /\ scan'.raised = NULL
            /\ [address |-> Lower(scan'.logs[i].to), amount |-> scan'.logs[i].amount,
                tx_hash |-> scan'.logs[i].tx_hash] \in event_loop'.created
            /\ \E k \in DOMAIN recharge_orders' :
                  /\ k > Len(recharge_orders)
                  /\ recharge_orders'[k].tx_hash = scan'.logs[i].tx_hash
                  /\ recharge_orders'[k].amount = scan'.logs[i].amount
                  /\ recharge_orders'[k].status = "confirmed"
                  /\ BalanceOf(user_balances', recharge_orders'[k].user_id)
                       = BalanceOf(user_balances, recharge_orders'[k].user_id)
                         + ConfirmedSince(recharge_orders', Len(recharge_orders),
                                          recharge_orders'[k].user_id)]_vars

\* Both deposits of a batch were confirmed while no notification could be
\* sent, and both have their sweep task.
C23_Witness ==
    /\ Len(scan.logs) = 2
    /\ scan.notify_failed = {1, 2}
    /\ scan.confirmed = {1, 2}
    /\ scan.sweep_created = {1, 2}
    /\ Cardinality(event_loop.created) = 2
    /\ event_loop.poll_pc = "sleep"

\* C24: while the monitor runs, the poll loop task is in an iteration or in
\* its sleep and never ended by an exception; an iteration, also one in which
\* every RPC call fails or the transfer check or the expiry raises, is
\* followed by the sleep, and the sleep by the next iteration.
C24_PollLoopKeepsCycling ==
    /\ [](monitor.running => event_loop.poll_pc \in {"check", "sleep"})
    /\ (monitor.running /\ event_loop.poll_pc = "check")
          ~> (event_loop.poll_pc = "sleep" \/ ~monitor.running)
    /\ (monitor.running /\ event_loop.poll_pc = "sleep")
          ~> (event_loop.poll_pc = "check" \/ ~monitor.running)

\* An iteration ended with an exception after a deposit was confirmed, and
\* the loop has slept and is at its next iteration.
C24_Witness ==
    /\ monitor.running
    /\ scan.raised # NULL
    /\ scan.confirmed # {}
    /\ event_loop.poll_pc = "check"
    /\ event_loop.poll_tasks = 1

\* C25: a _rpc_call makes at most one request per configured endpoint and no
\* two requests to the same endpoint, and when it has returned None every
\* endpoint was tried, also with other tasks calling _rpc_call at the same
\* time.
C25_EachEndpointOncePerCall ==
    \A p \in Tasks :
        tasks[p].op = "rpc_call"
        => /\ Len(tasks[p].tried) <= NUM_RPC_ENDPOINTS
           /\ \A i, j \in DOMAIN tasks[p].tried :
                 tasks[p].tried[i] = tasks[p].tried[j] => i = j
           /\ (tasks[p].pc = "done" /\ tasks[p].ret.kind = "None")
                 => {tasks[p].tried[i] : i \in DOMAIN tasks[p].tried} = Endpoints

\* The sum of the amounts of the spend records of user u.
RECURSIVE SpentInRecords(_, _)
SpentInRecords(records, u) ==
    IF records = << >> THEN 0
    ELSE (IF Head(records).user_id = u THEN Head(records).amount ELSE 0)
         + SpentInRecords(Tail(records), u)

\* After every call the spend records of each user add up to the user's
\* total_spent (0 for a user without a balance row).
SpendRecordsAddUp ==
    \A u \in Users :
        SpentInRecords(spend_records, u)
            = IF u \in DOMAIN user_balances THEN user_balances[u].total_spent ELSE 0

\* Records are only ever appended; a deduct_balance that returns True adds
\* exactly one record, of the caller, and one that returns False adds none.
SpendRecordsAppendOnly ==
    /\ Len(spend_records') >= Len(spend_records)
    /\ SubSeq(spend_records', 1, Len(spend_records)) = spend_records
    /\ (Returned /\ last'.op = "deduct_balance")
          => IF last'.ret.kind = "True"
             THEN /\ Len(spend_records') = Len(spend_records) + 1
                  /\ spend_records'[Len(spend_records')] =
                        [user_id |-> last'.user_id, feature |-> last'.feature,
                         amount |-> last'.amount]
             ELSE spend_records' = spend_records

\* C26: after every completed deduct_balance, for each user the amounts of
\* the user's spend records add up to the user's total_spent, one record
\* exists per successful debit, and existing spend records are never
\* modified or removed.
C26_SpendRecordsMatchTotalSpent ==
    []SpendRecordsAddUp /\ [][SpendRecordsAppendOnly]_vars

\* A user debited twice: two records whose amounts add up to total_spent.
C26_Witness ==
    /\ last.op = "deduct_balance" /\ last.ret.kind = "True"
    /\ Cardinality({i \in DOMAIN spend_records :
                        spend_records[i].user_id = last.user_id}) = 2
    /\ SpentInRecords(spend_records, last.user_id) > last.amount

\* No task and no running monitor without a seed; never two poll loop tasks;
\* none once stop() has returned.
OnePollLoop ==
    /\ mnemonic = NoSeed => ~monitor.running /\ event_loop.poll_tasks = 0
    /\ event_loop.poll_tasks <= 1
    /\ last.op = "stop" => ~monitor.running /\ event_loop.poll_tasks = 0

\* A start() that finds no seed or a running monitor changes nothing.
StartTwiceIsNoop ==
    (Returned /\ last'.op = "start" /\ (mnemonic = NoSeed \/ monitor.running))
       => /\ monitor' = monitor
          /\ event_loop' = event_loop

\* C27: start() with no master seed starts no poll task and leaves the
\* monitor not running; start() on a running monitor starts no second task;
\* at most one poll loop task is active at any time, and none after stop().
C27_AtMostOnePollLoop ==
    []OnePollLoop /\ [][StartTwiceIsNoop]_vars

\* start() has just returned early on a monitor that runs its one task and
\* has iterated.
C27_Witness ==
    /\ last.op = "start" /\ last.ret.kind = "returned early"
    /\ mnemonic # NoSeed
    /\ monitor.running
    /\ event_loop.poll_tasks = 1
    /\ event_loop.poll_pc = "sleep"

\* The user a deposit address belongs to, NULL for any other address.
OwnerOf(wallets, addr_lower) ==
    IF SelectUserByLowerAddress(wallets, addr_lower) = {} THEN NULL
    ELSE CHOOSE u \in SelectUserByLowerAddress(wallets, addr_lower) : TRUE

\* The amounts of the logs of a batch that pay a deposit address of user u.
RECURSIVE DepositedTo(_, _, _)
DepositedTo(logs, wallets, u) ==
    IF logs = << >> THEN 0
    ELSE (IF Head(logs).amount > 0 /\ OwnerOf(wallets, Lower(Head(logs).to)) = u
          THEN Head(logs).amount ELSE 0)
         + DepositedTo(Tail(logs), wallets, u)

\* No log of the batch carries a hash credited before the cycle.
FirstSight(logs) == \A i \in DOMAIN logs : Credited(logs[i].tx_hash) = {}

\* C28: when every call succeeds, a poll cycle credits each owner with the
\* amount of every log of the scanned range that pays one of the owner's
\* deposit addresses a positive amount, once per log, also when two logs of
\* the batch carry the same transaction hash.
C28_EveryDepositLogCredited ==
    [][(Cycled /\ scan'.raised = NULL /\ FirstSight(scan'.logs))
       => \A u \in Users :
             BalanceOf(user_balances', u)
                = BalanceOf(user_balances, u)
                  + DepositedTo(scan'.logs, user_wallets, u)]_vars

\* The same for batches whose logs carry different hashes.
DistinctHashesCredited ==
    [][(Cycled /\ scan'.raised = NULL /\ FirstSight(scan'.logs)
        /\ \A i, j \in DOMAIN scan'.logs :
              scan'.logs[i].tx_hash = scan'.logs[j].tx_hash => i = j)
       => \A u \in Users :
             BalanceOf(user_balances', u)
                = BalanceOf(user_balances, u)
                  + DepositedTo(scan'.logs, user_wallets, u)]_vars

\* The sweep task p has signed its transaction and is about to broadcast it.
Signed(p) == tasks[p].op = "sweep_to_cold" /\ tasks[p].pc = "send_raw_transaction"

\* C29: two sweep tasks created in one poll cycle for two deposits to the same
\* hot address, both holding a signed transaction, have signed with different
\* nonces, and the node has not already accepted another transaction of the
\* address with the nonce of either.
C29_SweepsSignWithDifferentNonces ==
    \A p, q \in Tasks :
        (p # q /\ Signed(p) /\ Signed(q) /\ tasks[p].address = tasks[q].address)
        => /\ tasks[p].nonce # tasks[q].nonce
           /\ [from |-> tasks[p].address, nonce |-> tasks[p].nonce] \notin chain_txs

\* The calls of user u for feature f on day d that returned is_free = true.
FreeUses(u, f, d) ==
    {k \in DOMAIN quota_log : /\ quota_log[k].user_id = u
                              /\ quota_log[k].feature = f
                              /\ quota_log[k].today = d
                              /\ quota_log[k].kind = "free"}

\* C30: under any interleaving of concurrent check_and_deduct calls of one
\* user for one feature on one day, at most daily_free_limit of the calls
\* return is_free = true.
C30_FreeUsesWithinDailyLimit ==
    \A u \in Users : \A f \in Features : \A d \in Days :
        Cardinality(FreeUses(u, f, d)) <= FEATURE_CONFIG(f).free_limit

====
